---- MODULE Spec2Model ----
(***************************************************************************)
(* A model of the JSONata evaluators of this repository.                   *)
(*                                                                         *)
(* Two tree-walking evaluators live in the repository:                     *)
(*   - the pool evaluator,  jsonata/src/evaluator.rs  (Evaluator::...),    *)
(*     with its built-ins in src/functions.rs;                             *)
(*   - the JsonValue evaluator, src/evaluator.rs (free functions), modelled*)
(*     here with the prefix jv_ where a name would clash.                  *)
(* Both are modelled big-step: evaluate is a recursive operator from an    *)
(* AST node, an input value, a frame and the evaluation state (frame store *)
(* and event log) to an outcome: ok(value), err(code) or panic.            *)
(*                                                                         *)
(* Numbers are IEEE doubles in the code.  They are modelled as normalised  *)
(* fractions n/d (d > 0), with d = 0 for the non-finite doubles: 1/0 and   *)
(* -1/0 are the infinities and 0/0 is NaN.  The sign of zero and rounding  *)
(* are not modelled; the operands of the model are small, so no finite     *)
(* operation overflows.                                                    *)
(***************************************************************************)
EXTENDS Integers, Sequences, FiniteSets, TLC

VARIABLES ast, data, phase, engine, result, tokenizer, tokens

vars == <<ast, data, phase, engine, result, tokenizer, tokens>>

----------------------------------------------------------------------------
(* Values: ValueKind of the pool evaluator; Value of the JsonValue one.    *)

Undefined == [k |-> "undefined"]

Null == [k |-> "null"]

Bool(b) == [k |-> "bool", b |-> b]

String(s) == [k |-> "string", s |-> s]

Abs(i) == IF i < 0 THEN -i ELSE i

Sign(i) == IF i < 0 THEN -1 ELSE IF i = 0 THEN 0 ELSE 1

RECURSIVE GCD(_, _)
GCD(a, b) == IF b = 0 THEN a ELSE GCD(b, a % b)

\* The double n/d; d = 0 gives an infinity (n # 0) or NaN (n = 0).
Number(n, d) ==
  IF d = 0 THEN [k |-> "number", n |-> Sign(n), d |-> 0]
  ELSE LET g == GCD(Abs(n), Abs(d))
       IN [k |-> "number", n |-> (Sign(d) * n) \div g, d |-> Abs(d) \div g]

Int2Num(i) == Number(i, 1)

is_nan(x) == x.d = 0 /\ x.n = 0

is_infinite(x) == x.d = 0 /\ x.n # 0

Array(m, fl) == [k |-> "array", m |-> m, fl |-> fl]

Object(e) == [k |-> "object", e |-> e]

Lambda(name, node) == [k |-> "lambda", name |-> name, node |-> node]

is_undefined(v) == v.k = "undefined"

is_number(v) == v.k = "number"

is_string(v) == v.k = "string"

is_array(v) == v.k = "array"

is_function(v) == v.k \in {"lambda", "nativefn"}

is_integer(v) == v.k = "number" /\ v.d = 1

get_flags(v) == IF is_array(v) THEN v.fl ELSE {}

has_flags(v, flag) == flag \in get_flags(v)

add_flags(v, flag) == IF is_array(v) THEN [v EXCEPT !.fl = @ \cup {flag}] ELSE v

set_flags(v, fl) == IF is_array(v) THEN [v EXCEPT !.fl = fl] ELSE v

len(v) == IF is_array(v) THEN Len(v.m) ELSE 0

is_empty(v) == len(v) = 0

get_member(v, i) == IF is_array(v) /\ i >= 0 /\ i < Len(v.m) THEN v.m[i + 1] ELSE Undefined

wrap_in_array(v, fl) == Array(<<v>>, fl)

wrap_in_array_if_needed(v, fl) == IF is_array(v) THEN v ELSE wrap_in_array(v, fl)

push(arr, v) == [arr EXCEPT !.m = Append(@, v)]

members(v) == IF is_array(v) THEN v.m ELSE <<>>

RECURSIVE is_truthy(_)
RECURSIVE any_truthy(_, _)
any_truthy(m, i) ==
  IF i > Len(m) THEN FALSE
  ELSE IF is_truthy(m[i]) THEN TRUE ELSE any_truthy(m, i + 1)

is_truthy(v) ==
  CASE v.k = "undefined" -> FALSE
    [] v.k = "null" -> FALSE
    [] v.k = "bool" -> v.b
    [] v.k = "number" -> v.n # 0 \/ v.d = 0
    [] v.k = "string" -> v.s # ""
    [] v.k = "object" -> Len(v.e) > 0
    [] v.k = "array" ->
         IF Len(v.m) = 0 THEN FALSE
         ELSE IF Len(v.m) = 1 THEN is_truthy(v.m[1])
         ELSE any_truthy(v.m, 1)
    [] OTHER -> FALSE

----------------------------------------------------------------------------
(* f64 arithmetic and ordering on the fraction model.                      *)

f64_add(a, b) == Number(a.n * b.d + b.n * a.d, a.d * b.d)

f64_sub(a, b) == Number(a.n * b.d - b.n * a.d, a.d * b.d)

f64_mul(a, b) == Number(a.n * b.n, a.d * b.d)

f64_div(a, b) ==
  IF b.n = 0 THEN Number(a.n, 0)
  ELSE Number(a.n * b.d * Sign(b.n), a.d * Abs(b.n))

\* Rust's % on doubles is fmod: the remainder has the sign of the dividend.
f64_rem(a, b) ==
  IF b.n = 0 THEN Number(0, 0)
  ELSE LET q == (Abs(a.n) * b.d) \div (a.d * Abs(b.n))
           t == Int2Num(Sign(a.n) * Sign(b.n) * q)
       IN f64_sub(a, f64_mul(t, b))

f64_neg(a) == Number(-a.n, a.d)

\* IEEE comparisons: every comparison with NaN is false.
f64_lt(a, b) ==
  IF is_nan(a) \/ is_nan(b) THEN FALSE
  ELSE IF a.d = 0 /\ b.d = 0 THEN a.n < b.n
  ELSE IF a.d = 0 THEN a.n < 0
  ELSE IF b.d = 0 THEN b.n > 0
  ELSE a.n * b.d < b.n * a.d

f64_eq(a, b) == ~is_nan(a) /\ ~is_nan(b) /\ a = b

f64_le(a, b) == f64_lt(a, b) \/ f64_eq(a, b)

\* String ordering (Rust's str Ord is bytewise lexicographic), on the strings
\* of the model, listed in ascending order.
StrOrder == <<"", "a", "ab", "b">>

str_rank(s) == CHOOSE i \in 1..Len(StrOrder) : StrOrder[i] = s

str_lt(a, b) == str_rank(a) < str_rank(b)

----------------------------------------------------------------------------
(* The AST (consumed contract): every node carries position, predicates,   *)
(* keep_array, keep_singleton_array, cons_array, stages and group_by.      *)
(* An Option is a sequence of length 0 (None) or 1 (Some).                 *)

Node(kind, pos) ==
  [kind |-> kind, position |-> pos, predicates |-> <<>>, keep_array |-> FALSE,
   keep_singleton_array |-> FALSE, cons_array |-> FALSE, stages |-> <<>>,
   group_by |-> <<>>]

AstNull(pos) == Node("Null", pos)

AstBool(pos, b) == [b |-> b] @@ Node("Bool", pos)

AstString(pos, s) == [s |-> s] @@ Node("String", pos)

AstNumber(pos, n) == [n |-> n] @@ Node("Number", pos)

AstName(pos, name) == [name |-> name] @@ Node("Name", pos)

AstVar(pos, name) == [name |-> name] @@ Node("Var", pos)

AstBlock(pos, exprs) == [exprs |-> exprs] @@ Node("Block", pos)

AstMinus(pos, e) == [op |-> "Minus", arg |-> e] @@ Node("Unary", pos)

AstArray(pos, items) ==
  [Node("Unary", pos) EXCEPT !.cons_array = TRUE] @@ [op |-> "ArrayConstructor", items |-> items]

\* pairs: a sequence of <<key AST, value AST>>.
AstObject(pos, pairs) == [op |-> "ObjectConstructor", pairs |-> pairs] @@ Node("Unary", pos)

AstBinary(pos, op, lhs, rhs) == [op |-> op, lhs |-> lhs, rhs |-> rhs] @@ Node("Binary", pos)

AstTernary(pos, c, t, e) == [cond |-> c, truthy |-> t, falsy |-> e] @@ Node("Ternary", pos)

AstPath(pos, steps) == [steps |-> steps] @@ Node("Path", pos)

AstLambda(pos, args, body) == [name |-> "", args |-> args, body |-> body] @@ Node("Lambda", pos)

AstFunction(pos, proc, args) ==
  [proc |-> proc, args |-> args, is_partial |-> FALSE] @@ Node("Function", pos)

AstFilter(pos, e) == [expr |-> e] @@ Node("Filter", pos)

----------------------------------------------------------------------------
(* Evaluation state and outcomes.  st.fs is the frame store, st.seen the   *)
(* positions of the nodes evaluate was entered for, st.log one record per  *)
(* completed evaluate call, st.calls one record per function application.  *)

NoPosition == 0

Ok(v, st) == [t |-> "ok", v |-> v, code |-> "", pos |-> NoPosition, st |-> st]

Err(code, pos, st) == [t |-> "err", v |-> Undefined, code |-> code, pos |-> pos, st |-> st]

Panic(why, st) == [t |-> "panic", v |-> Undefined, code |-> why, pos |-> NoPosition, st |-> st]

\* Frame: name -> value bindings with an optional parent (0: none).
RootFrame == 1

NativeFn(arity, name) == [k |-> "nativefn", arity |-> arity, name |-> name]

\* The native built-ins the root frame is preloaded with, one of each arity.
\* "now" stands for a nullary native (ValueKind::NativeFn0).
Builtins ==
  <<[name |-> "now", v |-> NativeFn(0, "now")],
    [name |-> "count", v |-> NativeFn(1, "count")],
    [name |-> "append", v |-> NativeFn(2, "append")],
    [name |-> "substring", v |-> NativeFn(3, "substring")]>>

\* seed stands for the keys of the RandomState of the HashMap that a group
\* expression builds: it decides the order in which the map is iterated.
InitState(seed) ==
  [fs |-> <<[parent |-> 0, b |-> Builtins]>>, seen |-> {}, log |-> <<>>, calls |-> <<>>,
   seed |-> seed, grouped |-> <<>>, steps |-> <<>>, blocks |-> <<>>]

\* st.steps has one entry for every completed evaluate_step: the step, its
\* input, its members' results and what it returned.
Stepped(st, step, input, results, out) ==
  [st EXCEPT !.steps = Append(@, [pos |-> step.position, step |-> step, input |-> input,
                                  results |-> results, out |-> out])]

\* st.blocks has one entry for every evaluate_block that returned: the frame
\* it was called on, and the frames before the call and after it (r is the
\* outcome of the block).
block_result(f, before, r) ==
  [r EXCEPT !.st.blocks = Append(@, [frame |-> f, t |-> r.t, before |-> before,
                                     after |-> r.st.fs])]

Note(st, pos) == [st EXCEPT !.seen = @ \cup {pos}]

new_with_parent(st, f) == [st EXCEPT !.fs = Append(@, [parent |-> f, b |-> <<>>])]

newest_frame(st) == Len(st.fs)

RECURSIVE binding_index(_, _, _)
binding_index(b, name, i) ==
  IF i = 0 THEN 0 ELSE IF b[i].name = name THEN i ELSE binding_index(b, name, i - 1)

bind(st, f, name, v) ==
  LET b == st.fs[f].b
      i == binding_index(b, name, Len(b))
  IN IF i = 0 THEN [st EXCEPT !.fs[f].b = Append(@, [name |-> name, v |-> v])]
     ELSE [st EXCEPT !.fs[f].b[i].v = v]

RECURSIVE lookup(_, _, _)
lookup(fs, f, name) ==
  LET b == fs[f].b
      i == binding_index(b, name, Len(b))
  IN IF i # 0 THEN <<b[i].v>>
     ELSE IF fs[f].parent = 0 THEN <<>>
     ELSE lookup(fs, fs[f].parent, name)

----------------------------------------------------------------------------
(* Built-ins the pool evaluator calls directly.                            *)

RECURSIVE entry_index(_, _, _)
entry_index(e, key, i) ==
  IF i > Len(e) THEN 0 ELSE IF e[i].key = key THEN i ELSE entry_index(e, key, i + 1)

get_entry(obj, key) ==
  LET i == entry_index(obj.e, key, 1) IN IF i = 0 THEN Undefined ELSE obj.e[i].val

RECURSIVE fn_lookup_internal(_, _)
RECURSIVE lookup_members(_, _, _, _)
lookup_members(m, key, i, acc) ==
  IF i > Len(m) THEN acc
  ELSE LET res == fn_lookup_internal(m[i], key)
       IN lookup_members(m, key, i + 1,
            CASE res.k = "undefined" -> acc
              [] res.k = "array" -> acc \o res.m
              [] OTHER -> Append(acc, res))

fn_lookup_internal(input, key) ==
  CASE input.k = "array" -> Array(lookup_members(input.m, key, 1, <<>>), {"SEQUENCE"})
    [] input.k = "object" -> get_entry(input, key)
    [] OTHER -> Undefined

fn_append(arg1, arg2) ==
  IF is_undefined(arg1) THEN arg2
  ELSE IF is_undefined(arg2) THEN arg1
  ELSE LET r == wrap_in_array_if_needed(arg1, {"SEQUENCE"})
           a == wrap_in_array_if_needed(arg2, {})
       IN [r EXCEPT !.m = @ \o a.m]

\* Value's PartialEq: structural equality; array flags are not compared.
RECURSIVE value_eq(_, _)
RECURSIVE members_eq(_, _, _)
RECURSIVE entries_eq(_, _, _)
members_eq(a, b, i) ==
  IF i > Len(a) THEN TRUE
  ELSE IF value_eq(a[i], b[i]) THEN members_eq(a, b, i + 1) ELSE FALSE

entries_eq(a, b, i) ==
  IF i > Len(a) THEN TRUE
  ELSE LET j == entry_index(b, a[i].key, 1)
       IN IF j = 0 THEN FALSE
          ELSE IF value_eq(a[i].val, b[j].val) THEN entries_eq(a, b, i + 1) ELSE FALSE

value_eq(a, b) ==
  IF a.k # b.k THEN FALSE
  ELSE CASE a.k = "number" -> f64_eq(a, b)
         [] a.k = "array" -> Len(a.m) = Len(b.m) /\ members_eq(a.m, b.m, 1)
         [] a.k = "object" -> Len(a.e) = Len(b.e) /\ entries_eq(a.e, b.e, 1)
         [] OTHER -> a = b

\* Compact JSON text of a value; a fraction n/d is written "n/d".
RECURSIVE dump(_)
RECURSIVE dump_members(_, _)
RECURSIVE dump_entries(_, _)
dump_members(m, i) ==
  IF i > Len(m) THEN ""
  ELSE (IF i > 1 THEN "," ELSE "") \o dump(m[i]) \o dump_members(m, i + 1)

dump_entries(e, i) ==
  IF i > Len(e) THEN ""
  ELSE (IF i > 1 THEN "," ELSE "") \o "\"" \o e[i].key \o "\":" \o dump(e[i].val)
       \o dump_entries(e, i + 1)

dump(v) ==
  CASE v.k = "null" -> "null"
    [] v.k = "bool" -> IF v.b THEN "true" ELSE "false"
    [] v.k = "number" ->
         IF v.d = 1 THEN ToString(v.n) ELSE ToString(v.n) \o "/" \o ToString(v.d)
    [] v.k = "string" -> "\"" \o v.s \o "\""
    [] v.k = "array" -> "[" \o dump_members(v.m, 1) \o "]"
    [] v.k = "object" -> "{" \o dump_entries(v.e, 1) \o "}"
    [] OTHER -> ""

fn_string(arg) ==
  IF is_undefined(arg) THEN Undefined
  ELSE IF is_string(arg) THEN arg
  ELSE IF is_function(arg) THEN String("")
  ELSE String(dump(arg))

fn_count(arg) ==
  Int2Num(IF is_undefined(arg) THEN 0 ELSE IF is_array(arg) THEN len(arg) ELSE 1)

fn_not(arg) == IF is_undefined(arg) THEN Undefined ELSE Bool(~is_truthy(arg))

\* The callable of a native function, applied to its (at most three) arguments.
native(name, a, b, c) ==
  CASE name = "count" -> fn_count(a)
    [] name = "not" -> fn_not(a)
    [] name = "string" -> fn_string(a)
    [] name = "append" -> fn_append(a, b)
    [] OTHER -> Undefined

as_usize(v) == IF v.n < 0 THEN 0 ELSE v.n

floor(x) == x.n \div x.d

----------------------------------------------------------------------------
(* The pool evaluator: the parts of evaluate and evaluate_binary_op that   *)
(* act on evaluated operands.                                              *)

RangeCap == 10000000

\* A collapse that hands back a one-element sequence as it is.
collapse_keeps_sole(res, keep_array) ==
  IF has_flags(res, "SEQUENCE")
  THEN LET r == IF keep_array THEN add_flags(res, "SINGLETON") ELSE res
       IN IF is_empty(r) THEN Undefined ELSE r
  ELSE res

\* A collapse that unwraps a one-element sequence whatever its flags.
collapse_ignores_singleton(res, keep_array) ==
  IF has_flags(res, "SEQUENCE")
  THEN LET r == IF keep_array THEN add_flags(res, "SINGLETON") ELSE res
       IN IF is_empty(r) THEN Undefined
          ELSE IF len(r) = 1 THEN get_member(r, 0) ELSE r
  ELSE res

\* Sequence collapsing at the end of evaluate.
collapse(res, keep_array) ==
  IF has_flags(res, "SEQUENCE")
  THEN LET r == IF keep_array THEN add_flags(res, "SINGLETON") ELSE res
       IN IF is_empty(r) THEN Undefined
          ELSE IF len(r) = 1
               THEN IF has_flags(r, "SINGLETON") THEN r ELSE get_member(r, 0)
               ELSE r
  ELSE res

ArithOps == {"Add", "Subtract", "Multiply", "Divide", "Modulus"}

CompareOps == {"LessThan", "LessThanEqual", "GreaterThan", "GreaterThanEqual"}

EqualityOps == {"Equal", "NotEqual"}

f64_arith(op, l, r) ==
  CASE op = "Add" -> f64_add(l, r)
    [] op = "Subtract" -> f64_sub(l, r)
    [] op = "Multiply" -> f64_mul(l, r)
    [] op = "Divide" -> f64_div(l, r)
    [] op = "Modulus" -> f64_rem(l, r)

f64_compare(op, l, r) ==
  CASE op = "LessThan" -> f64_lt(l, r)
    [] op = "LessThanEqual" -> f64_le(l, r)
    [] op = "GreaterThan" -> f64_lt(r, l)
    [] op = "GreaterThanEqual" -> f64_le(r, l)

str_compare(op, l, r) ==
  CASE op = "LessThan" -> str_lt(l, r)
    [] op = "LessThanEqual" -> str_lt(l, r) \/ l = r
    [] op = "GreaterThan" -> str_lt(r, l)
    [] op = "GreaterThanEqual" -> str_lt(r, l) \/ l = r

arithmetic(op, lhs, rhs, pos, st) ==
  IF is_undefined(lhs) THEN Ok(Undefined, st)
  ELSE IF ~(is_number(lhs) /\ ~is_nan(lhs)) THEN Err("T2001", pos, st)
  ELSE IF is_undefined(rhs) THEN Ok(Undefined, st)
  ELSE IF ~(is_number(rhs) /\ ~is_nan(rhs)) THEN Err("T2002", pos, st)
  ELSE LET r == f64_arith(op, lhs, rhs)
       IN IF is_infinite(r) THEN Err("D1001", NoPosition, st) ELSE Ok(r, st)

comparison(op, lhs, rhs, pos, st) ==
  IF is_undefined(lhs) \/ is_undefined(rhs) THEN Ok(Undefined, st)
  ELSE IF ~((is_number(lhs) \/ is_string(lhs)) /\ (is_number(rhs) \/ is_string(rhs)))
       THEN Err("T2010", pos, st)
  ELSE IF is_number(lhs) /\ is_number(rhs) THEN Ok(Bool(f64_compare(op, lhs, rhs)), st)
  ELSE IF is_string(lhs) /\ is_string(rhs) THEN Ok(Bool(str_compare(op, lhs.s, rhs.s)), st)
  ELSE Err("T2009", pos, st)

equality(op, lhs, rhs, st) ==
  IF is_undefined(lhs) \/ is_undefined(rhs) THEN Ok(Bool(FALSE), st)
  ELSE Ok(Bool(IF op = "Equal" THEN value_eq(lhs, rhs) ELSE ~value_eq(lhs, rhs)), st)

\* A range that treats an Undefined endpoint as a non-integer.
range_rejects_undefined(lhs, rhs, pos, st) ==
  IF ~is_integer(lhs) THEN Err("T2003", pos, st)
  ELSE IF ~is_integer(rhs) THEN Err("T2004", pos, st)
  ELSE LET l == as_usize(lhs)
           r == as_usize(rhs)
           size == r - l + 1
       IN IF l > r THEN Ok(Undefined, st)
          ELSE IF size > RangeCap THEN Panic("unreachable", st)
          ELSE Ok(Array([i \in 1..size |-> Int2Num(l + i - 1)], {"SEQUENCE"}), st)

range(lhs, rhs, pos, st) ==
  IF ~is_undefined(lhs) /\ ~is_integer(lhs) THEN Err("T2003", pos, st)
  ELSE IF ~is_undefined(rhs) /\ ~is_integer(rhs) THEN Err("T2004", pos, st)
  ELSE IF is_undefined(lhs) \/ is_undefined(rhs) THEN Ok(Undefined, st)
  ELSE LET l == as_usize(lhs)
           r == as_usize(rhs)
           size == r - l + 1
       IN IF l > r THEN Ok(Undefined, st)
          ELSE IF size > RangeCap THEN Panic("unreachable", st)
          ELSE Ok(Array([i \in 1..size |-> Int2Num(l + i - 1)], {"SEQUENCE"}), st)

RECURSIVE includes(_, _, _)
includes(m, v, i) ==
  IF i > Len(m) THEN FALSE
  ELSE IF value_eq(m[i], v) THEN TRUE ELSE includes(m, v, i + 1)

includes_expression(lhs, rhs, st) ==
  IF is_undefined(lhs) \/ is_undefined(rhs) THEN Ok(Bool(FALSE), st)
  ELSE Ok(Bool(includes(wrap_in_array_if_needed(rhs, {}).m, lhs, 1)), st)

----------------------------------------------------------------------------
(* The pool evaluator (jsonata/src/evaluator.rs).                          *)

RECURSIVE evaluate(_, _, _, _)
RECURSIVE evaluate_kind(_, _, _, _)
RECURSIVE evaluate_predicates(_, _, _, _)
RECURSIVE evaluate_block(_, _, _, _)
RECURSIVE evaluate_exprs(_, _, _, _, _, _)
RECURSIVE evaluate_unary_op(_, _, _, _)
RECURSIVE evaluate_items(_, _, _, _, _, _)
RECURSIVE evaluate_binary_op(_, _, _, _)
RECURSIVE evaluate_ternary(_, _, _, _)
RECURSIVE evaluate_path(_, _, _, _)
RECURSIVE evaluate_steps(_, _, _, _)
RECURSIVE evaluate_step(_, _, _, _, _)
RECURSIVE evaluate_step_members(_, _, _, _, _)
RECURSIVE evaluate_filter(_, _, _, _)
RECURSIVE evaluate_filter_members(_, _, _, _, _, _)
RECURSIVE evaluate_function(_, _, _, _, _, _)
RECURSIVE evaluate_args(_, _, _, _, _, _)
RECURSIVE apply_function(_, _, _, _, _, _)
RECURSIVE evaluate_group_expression(_, _, _, _, _)
RECURSIVE evaluate_group_keys(_, _, _, _, _, _, _, _)
RECURSIVE evaluate_group_values(_, _, _, _, _, _)
RECURSIVE evaluate_stages(_, _, _, _)

evaluate_var(name, input, f, st) ==
  IF name = ""
  THEN Ok(IF has_flags(input, "WRAPPED") THEN get_member(input, 0) ELSE input, st)
  ELSE LET l == lookup(st.fs, f, name)
       IN Ok(IF Len(l) = 1 THEN l[1] ELSE Undefined, st)

evaluate_kind(node, input, f, st) ==
  CASE node.kind = "Null" -> Ok(Null, st)
    [] node.kind = "Bool" -> Ok(Bool(node.b), st)
    [] node.kind = "String" -> Ok(String(node.s), st)
    [] node.kind = "Number" -> Ok(node.n, st)
    [] node.kind = "Block" -> evaluate_block(node.exprs, input, f, st)
    [] node.kind = "Unary" -> evaluate_unary_op(node, input, f, st)
    [] node.kind = "Binary" -> evaluate_binary_op(node, input, f, st)
    [] node.kind = "Var" -> evaluate_var(node.name, input, f, st)
    [] node.kind = "Ternary" -> evaluate_ternary(node, input, f, st)
    [] node.kind = "Path" -> evaluate_path(node, input, f, st)
    [] node.kind = "Name" -> Ok(fn_lookup_internal(input, node.name), st)
    [] node.kind = "Lambda" -> Ok(Lambda(node.name, node), st)
    [] node.kind = "Function" -> evaluate_function(input, node.proc, node.args, f, <<>>, st)
    [] OTHER -> Panic("unimplemented", st)

evaluate_predicates(filters, i, r, f) ==
  IF r.t # "ok" \/ i > Len(filters) THEN r
  ELSE evaluate_predicates(filters, i + 1, evaluate_filter(filters[i], r.v, f, r.st), f)

\* The end of evaluate: p is the outcome the predicates left.
evaluate_result(node, f, p) ==
  IF p.t # "ok" THEN p
  ELSE Ok(collapse(p.v, node.keep_array),
          [p.st EXCEPT !.log = Append(@, [pos |-> node.position, frame |-> f, raw |-> p.v,
                                          keep_array |-> node.keep_array,
                                          out |-> collapse(p.v, node.keep_array)])])

evaluate(node, input, f, st) ==
  evaluate_result(node, f,
    evaluate_predicates(node.predicates, 1,
      evaluate_kind(node, input, f, Note(st, node.position)), f))

evaluate_exprs(exprs, i, res, input, f, st) ==
  IF i > Len(exprs) THEN Ok(res, st)
  ELSE LET r == evaluate(exprs[i], input, f, st)
       IN IF r.t # "ok" THEN r ELSE evaluate_exprs(exprs, i + 1, r.v, input, f, r.st)

\* A block that evaluates its expressions on the frame of its caller.
evaluate_block_on_caller(exprs, input, f, st) ==
  block_result(f, st.fs, evaluate_exprs(exprs, 1, Undefined, input, f, st))

evaluate_block(exprs, input, f, st) ==
  LET st1 == new_with_parent(st, f)
  IN IF Len(exprs) = 0 THEN block_result(f, st.fs, Ok(Undefined, st1))
     ELSE block_result(f, st.fs,
            evaluate_exprs(exprs, 1, Undefined, input, newest_frame(st1), st1))

evaluate_items(items, i, res, input, f, st) ==
  IF i > Len(items) THEN Ok(res, st)
  ELSE LET r == evaluate(items[i], input, f, st)
       IN IF r.t # "ok" THEN r
          ELSE evaluate_items(items, i + 1,
                 IF items[i].kind = "Unary" /\ items[i].op = "ArrayConstructor"
                 THEN push(res, r.v) ELSE fn_append(res, r.v),
                 input, f, r.st)

evaluate_unary_op(node, input, f, st) ==
  CASE node.op = "Minus" ->
         LET r == evaluate(node.arg, input, f, st)
         IN IF r.t # "ok" THEN r
            ELSE IF is_undefined(r.v) THEN Ok(Undefined, r.st)
            ELSE IF is_number(r.v) /\ ~is_nan(r.v) THEN Ok(f64_neg(r.v), r.st)
            ELSE Err("D1002", node.position, r.st)
    [] node.op = "ArrayConstructor" ->
         evaluate_items(node.items, 1,
           Array(<<>>, IF node.cons_array THEN {"CONS"} ELSE {}), input, f, st)
    [] node.op = "ObjectConstructor" ->
         evaluate_group_expression(node.position, node.pairs, input, f, st)

evaluate_ternary(node, input, f, st) ==
  LET c == evaluate(node.cond, input, f, st)
  IN IF c.t # "ok" THEN c
     ELSE IF is_truthy(c.v) THEN evaluate(node.truthy, input, f, c.st)
     ELSE IF Len(node.falsy) = 1 THEN evaluate(node.falsy[1], input, f, c.st)
     ELSE Ok(Undefined, c.st)

concat(lhs, rhs, st) ==
  LET l == IF is_undefined(lhs) THEN "" ELSE fn_string(lhs).s
      r == IF is_undefined(rhs) THEN "" ELSE fn_string(rhs).s
  IN Ok(String(l \o r), st)

\* function($f, $g) { function($x) { $g($f($x)) } }: the chain function the
\* engine is constructed with.
ChainAst ==
  AstLambda(90, <<AstVar(91, "f"), AstVar(92, "g")>>,
    AstLambda(93, <<AstVar(94, "x")>>,
      AstFunction(95, AstVar(96, "g"),
        <<AstFunction(97, AstVar(98, "f"), <<AstVar(99, "x")>>)>>)))

evaluate_binary_op(node, input, f, st) ==
  IF node.op = "Bind"
  THEN IF node.lhs.kind = "Var"
       THEN LET r == evaluate(node.rhs, input, f, st)
            IN IF r.t # "ok" THEN r ELSE Ok(r.v, bind(r.st, f, node.lhs.name, r.v))
       ELSE Panic("unreachable", st)
  ELSE
  LET l == evaluate(node.lhs, input, f, st)
      r == evaluate(node.rhs, input, f, l.st)
  IN IF l.t # "ok" THEN l
     ELSE CASE node.op \in ArithOps ->
                 IF r.t # "ok" THEN r
                 ELSE arithmetic(node.op, l.v, r.v, node.position, r.st)
            [] node.op \in CompareOps ->
                 IF r.t # "ok" THEN r
                 ELSE comparison(node.op, l.v, r.v, node.position, r.st)
            [] node.op \in EqualityOps ->
                 IF r.t # "ok" THEN r ELSE equality(node.op, l.v, r.v, r.st)
            [] node.op = "Range" ->
                 IF r.t # "ok" THEN r ELSE range(l.v, r.v, node.position, r.st)
            [] node.op = "Concat" ->
                 IF r.t # "ok" THEN r ELSE concat(l.v, r.v, r.st)
            [] node.op = "And" ->
                 IF ~is_truthy(l.v) THEN Ok(Bool(FALSE), l.st)
                 ELSE IF r.t # "ok" THEN r ELSE Ok(Bool(is_truthy(r.v)), r.st)
            [] node.op = "Or" ->
                 IF is_truthy(l.v) THEN Ok(Bool(TRUE), l.st)
                 ELSE IF r.t # "ok" THEN r ELSE Ok(Bool(is_truthy(r.v)), r.st)
            [] node.op = "Apply" ->
                 IF node.rhs.kind = "Function"
                 THEN evaluate_function(input, node.rhs.proc, node.rhs.args, f, <<l.v>>, l.st)
                 ELSE IF r.t # "ok" THEN r
                 ELSE IF ~is_function(r.v) THEN Panic("unreachable", r.st)
                 ELSE IF is_function(l.v)
                 THEN LET chain == evaluate(ChainAst, Undefined, f, r.st)
                      IN IF chain.t # "ok" THEN chain
                         ELSE apply_function(node.lhs.position, Undefined, chain.v,
                                Array(<<l.v, r.v>>, {}), f, chain.st)
                 ELSE apply_function(node.rhs.position, Undefined, r.v,
                        Array(<<l.v>>, {}), f, r.st)
            [] node.op = "In" ->
                 IF r.t # "ok" THEN r ELSE includes_expression(l.v, r.v, r.st)
            [] OTHER -> Panic("unimplemented", l.st)

evaluate_args(args, i, acc, input, f, st) ==
  IF i > Len(args) THEN Ok(acc, st)
  ELSE LET r == evaluate(args[i], input, f, st)
       IN IF r.t # "ok" THEN r
          ELSE evaluate_args(args, i + 1, push(acc, r.v), input, f, r.st)

\* A call that hands the context over after the written arguments.
evaluate_function_context_last(input, proc, args, f, context, st) ==
  LET p == evaluate(proc, input, f, st)
  IN IF p.t # "ok" THEN p
     ELSE LET a == evaluate_args(args, 1, Array(<<>>, {}), input, f, p.st)
          IN IF a.t # "ok" THEN a
             ELSE apply_function(proc.position, input, p.v, Array(a.v.m \o context, {}), f, a.st)

\* context is the Option<&Value> that `~>` supplies as the first argument.
evaluate_function(input, proc, args, f, context, st) ==
  LET p == evaluate(proc, input, f, st)
  IN IF p.t # "ok" THEN p
     ELSE IF is_undefined(p.v) /\ proc.kind = "Path" /\ proc.steps[1].kind = "Name"
             /\ Len(lookup(p.st.fs, f, proc.steps[1].name)) = 1
     THEN Err("T1005", proc.position, p.st)
     ELSE LET a == evaluate_args(args, 1, Array(context, {}), input, f, p.st)
          IN IF a.t # "ok" THEN a
             ELSE apply_function(proc.position, input, p.v, a.v, f, a.st)

RECURSIVE bind_args(_, _, _, _, _)
bind_args(params, i, args, f, st) ==
  IF i > Len(params) THEN st
  ELSE bind_args(params, i + 1, args, f, bind(st, f, params[i].name, get_member(args, i - 1)))

Called(st, proc, args, parent) ==
  [st EXCEPT !.calls = Append(@, [proc |-> proc, args |-> args.m, parent |-> parent])]

apply_function(position, input, proc, args, f, st) ==
  CASE proc.k = "lambda" ->
         LET st1 == new_with_parent(st, f)
             nf == newest_frame(st1)
             st2 == bind_args(proc.node.args, 1, args, nf, st1)
         IN evaluate(proc.node.body, input, nf, Called(st2, proc, args, f))
    [] proc.k = "nativefn" /\ proc.arity = 0 ->
         Ok(native(proc.name, Undefined, Undefined, Undefined), Called(st, proc, args, f))
    [] proc.k = "nativefn" /\ proc.arity = 1 ->
         IF len(args) > 1 THEN Err("T0410", position, st)
         ELSE IF is_empty(args)
         THEN Ok(native(proc.name, input, Undefined, Undefined), Called(st, proc, args, f))
         ELSE Ok(native(proc.name, get_member(args, 0), Undefined, Undefined),
                 Called(st, proc, args, f))
    [] proc.k = "nativefn" /\ proc.arity = 2 ->
         IF len(args) > 2 THEN Err("T0410", position, st)
         ELSE Ok(native(proc.name, get_member(args, 0), get_member(args, 1), Undefined),
                 Called(st, proc, args, f))
    [] proc.k = "nativefn" /\ proc.arity = 3 ->
         IF len(args) > 3 THEN Err("T0410", position, st)
         ELSE Ok(native(proc.name, get_member(args, 0), get_member(args, 1),
                        get_member(args, 2)), Called(st, proc, args, f))
    [] OTHER -> Err("T1006", position, st)

\* The flattening at the end of evaluate_step.
RECURSIVE flatten(_, _, _)
flatten(m, i, acc) ==
  IF i > Len(m) THEN acc
  ELSE flatten(m, i + 1,
         IF ~is_array(m[i]) \/ has_flags(m[i], "CONS") THEN Append(acc, m[i])
         ELSE acc \o m[i].m)

step_result(step, input, r, last_step) ==
  IF r.t # "ok" THEN r
  ELSE IF last_step /\ len(r.v) = 1 /\ is_array(get_member(r.v, 0))
          /\ ~has_flags(get_member(r.v, 0), "SEQUENCE")
  THEN Ok(get_member(r.v, 0), Stepped(r.st, step, input, r.v.m, get_member(r.v, 0)))
  ELSE Ok(Array(flatten(r.v.m, 1, <<>>), {"SEQUENCE"}),
          Stepped(r.st, step, input, r.v.m, Array(flatten(r.v.m, 1, <<>>), {"SEQUENCE"})))

evaluate_stages(stages, i, r, f) ==
  IF r.t # "ok" \/ i > Len(stages) THEN r
  ELSE evaluate_stages(stages, i + 1, evaluate_filter(stages[i], r.v, f, r.st), f)

\* One item of evaluate_step's loop: g is the outcome of the item after its stages.
push_item_result(res, g) ==
  IF g.t # "ok" THEN g
  ELSE Ok(IF is_undefined(g.v) THEN res ELSE push(res, g.v), g.st)

evaluate_step_members(step, m, i, r, f) ==
  IF r.t # "ok" \/ i > Len(m) THEN r
  ELSE evaluate_step_members(step, m, i + 1,
         push_item_result(r.v, evaluate_stages(step.stages, 1,
                                 evaluate(step, m[i], f, r.st), f)), f)

evaluate_step(step, input, f, last_step, st) ==
  IF step.kind = "Sort" THEN Panic("unimplemented", st)
  ELSE step_result(step, input, evaluate_step_members(step, members(input), 1,
                     Ok(Array(<<>>, {"SEQUENCE"}), st), f), last_step)

\* A loop of evaluate_path that goes on after an empty result.
RECURSIVE evaluate_steps_no_break(_, _, _, _)
evaluate_steps_no_break(steps, i, r, f) ==
  IF r.t # "ok" \/ i > Len(steps) THEN r
  ELSE evaluate_steps_no_break(steps, i + 1,
         IF i = 1 /\ steps[i].cons_array THEN evaluate(steps[i], r.v, f, r.st)
         ELSE evaluate_step(steps[i], r.v, f, i = Len(steps), r.st), f)

\* The loop of evaluate_path: r is the outcome of the step before i (the input for i = 1).
evaluate_steps(steps, i, r, f) ==
  IF r.t # "ok" \/ i > Len(steps) THEN r
  ELSE IF i > 1 /\ (is_undefined(r.v) \/ (is_array(r.v) /\ is_empty(r.v))) THEN r
  ELSE evaluate_steps(steps, i + 1,
         IF i = 1 /\ steps[i].cons_array THEN evaluate(steps[i], r.v, f, r.st)
         ELSE evaluate_step(steps[i], r.v, f, i = Len(steps), r.st), f)

\* keep_singleton_array handling at the end of evaluate_path.
keep_singleton(res) ==
  LET flags == get_flags(res)
      r == IF "CONS" \in flags /\ "SEQUENCE" \notin flags
           THEN wrap_in_array(res, flags \cup {"SEQUENCE"}) ELSE res
  IN set_flags(r, flags \cup {"SINGLETON"})

\* The end of evaluate_path: r is the outcome of the steps.
path_result(node, f, r) ==
  IF r.t # "ok" THEN r
  ELSE IF Len(node.group_by) = 1
  THEN evaluate_group_expression(node.group_by[1].position, node.group_by[1].pairs,
         IF node.keep_singleton_array THEN keep_singleton(r.v) ELSE r.v, f, r.st)
  ELSE Ok(IF node.keep_singleton_array THEN keep_singleton(r.v) ELSE r.v, r.st)

evaluate_path(node, input, f, st) ==
  path_result(node, f,
    evaluate_steps(node.steps, 1,
      Ok(IF is_array(input) /\ node.steps[1].kind # "Var" THEN input
         ELSE wrap_in_array(input, {}), st), f))

\* get_index without the wrap of a negative index to the end of the input.
get_index_from_start(n, input) == floor(n)

\* get_index of evaluate_filter: floor, then count from the end when negative.
get_index(n, input) ==
  LET index == floor(n)
      length == IF is_array(input) THEN len(input) ELSE 1
  IN IF index < 0 THEN index + length ELSE index

RECURSIVE push_matching(_, _, _, _, _, _)
push_matching(idx, j, input, i, item, res) ==
  IF j > Len(idx) THEN res
  ELSE push_matching(idx, j + 1, input, i, item,
         IF get_index(idx[j], input) = i THEN push(res, item) ELSE res)

all_numbers(m) == \A j \in 1..Len(m) : is_number(m[j]) /\ ~is_nan(m[j])

evaluate_filter_members(filter, input, i, res, f, st) ==
  IF i > len(input) THEN Ok(res, st)
  ELSE LET item == input.m[i]
           r == evaluate(filter, item, f, st)
           index == IF is_number(r.v) /\ ~is_nan(r.v) THEN wrap_in_array(r.v, {}) ELSE r.v
       IN IF r.t # "ok" THEN r
          ELSE evaluate_filter_members(filter, input, i + 1,
                 IF is_array(index) /\ all_numbers(index.m)
                 THEN push_matching(index.m, 1, input, i - 1, item, res)
                 ELSE IF is_truthy(index) THEN push(res, item) ELSE res,
                 f, r.st)

evaluate_filter(node, input0, f, st) ==
  LET input == wrap_in_array_if_needed(input0, {})
      res == Array(<<>>, {"SEQUENCE"})
  IN IF node.kind # "Filter" THEN Panic("unimplemented", st)
     ELSE IF node.expr.kind = "Number"
     THEN LET item == get_member(input, get_index(node.expr.n, input))
          IN IF is_undefined(item) THEN Ok(res, st)
             ELSE IF is_array(item) THEN Ok(item, st)
             ELSE Ok(push(res, item), st)
     ELSE evaluate_filter_members(node.expr, input, 1, res, f, st)

RECURSIVE group_index(_, _, _)
group_index(groups, key, i) ==
  IF i > Len(groups) THEN 0
  ELSE IF groups[i].key = key THEN i ELSE group_index(groups, key, i + 1)

\* HashMap::keys(): an order that depends on the map's hasher, not on the
\* order of insertion.
keys_order(groups, seed) ==
  IF seed = 0 THEN groups ELSE [i \in 1..Len(groups) |-> groups[Len(groups) + 1 - i]]

insert_index(obj, key, v) ==
  LET i == entry_index(obj.e, key, 1)
  IN IF i = 0 THEN [obj EXCEPT !.e = Append(@, [key |-> key, val |-> v])]
     ELSE [obj EXCEPT !.e[i].val = v]

\* A grouping that takes every key met a second time for a duplicate.
evaluate_group_keys_once(position, object, input, i, j, groups, f, st) ==
  IF i > len(input) THEN Ok(groups, st)
  ELSE IF j > Len(object) THEN
       evaluate_group_keys(position, object, input, i + 1, 1, groups, f, st)
  ELSE LET item == input.m[i]
           key == evaluate(object[j][1], item, f, st)
           g == group_index(groups, key.v.s, 1)
       IN IF key.t # "ok" THEN key
          ELSE IF ~is_string(key.v) THEN Err("T1003", position, key.st)
          ELSE IF g # 0 THEN Err("D1009", position, key.st)
          ELSE evaluate_group_keys(position, object, input, i, j + 1,
                 Append(groups, [key |-> key.v.s, data |-> item, index |-> j]), f, key.st)

evaluate_group_keys(position, object, input, i, j, groups, f, st) ==
  IF i > len(input) THEN Ok(groups, st)
  ELSE IF j > Len(object) THEN
       evaluate_group_keys(position, object, input, i + 1, 1, groups, f, st)
  ELSE LET item == input.m[i]
           key == evaluate(object[j][1], item, f, st)
           g == group_index(groups, key.v.s, 1)
       IN IF key.t # "ok" THEN key
          ELSE IF ~is_string(key.v) THEN Err("T1003", position, key.st)
          ELSE IF g # 0 /\ groups[g].index # j THEN Err("D1009", position, key.st)
          ELSE evaluate_group_keys(position, object, input, i, j + 1,
                 IF g # 0 THEN [groups EXCEPT ![g].data = fn_append(@, item)]
                 ELSE Append(groups, [key |-> key.v.s, data |-> item, index |-> j]),
                 f, key.st)

evaluate_group_values(object, groups, i, res, f, st) ==
  IF i > Len(groups) THEN Ok(res, st)
  ELSE LET v == evaluate(object[groups[i].index][2], groups[i].data, f, st)
       IN IF v.t # "ok" THEN v
          ELSE evaluate_group_values(object, groups, i + 1,
                 IF is_undefined(v.v) THEN res ELSE insert_index(res, groups[i].key, v.v),
                 f, v.st)

\* st.grouped records the input array as the caller holds it after the call: the
\* array handle is shared, so a push on it is seen by the caller.
evaluate_group_expression(position, object, input0, f, st) ==
  LET wrapped == wrap_in_array_if_needed(input0, {})
      input == IF is_empty(wrapped) THEN push(wrapped, Undefined) ELSE wrapped
      st1 == [st EXCEPT !.grouped = Append(@, [before |-> input0,
                 after |-> IF is_array(input0) THEN input ELSE input0])]
      keys == evaluate_group_keys(position, object, input, 1, 1, <<>>, f, st1)
  IN IF keys.t # "ok" THEN keys
     ELSE evaluate_group_values(object, keys_order(keys.v, st.seed), 1, Object(<<>>), f, keys.st)

----------------------------------------------------------------------------
(* The JsonValue evaluator (src/evaluator.rs).  Value::Raw(json) is a value *)
(* of kind null, bool, number, string, object or jsonarray (a JSON array    *)
(* held raw); Value::Array is kind array with the flags SEQUENCE (is_seq)   *)
(* and KEEP_ARRAY (keep_array).                                             *)

is_raw(v) == v.k \in {"null", "bool", "number", "string", "object", "jsonarray"}

is_seq(v) == has_flags(v, "SEQUENCE")

keep_array(v) == has_flags(v, "KEEP_ARRAY")

RECURSIVE to_json(_)
RECURSIVE to_json_members(_, _, _)
to_json_members(m, i, acc) ==
  IF i > Len(m) THEN acc
  ELSE to_json_members(m, i + 1,
         IF is_undefined(m[i]) THEN acc ELSE Append(acc, to_json(m[i])))

to_json(v) ==
  IF is_array(v) THEN [k |-> "jsonarray", m |-> to_json_members(v.m, 1, <<>>)] ELSE v

\* impl PartialEq for Value.  The result is "true", "false" or "panic": the bound
\* self.len() - 1 of the loop underflows for two empty arrays (a panic in a debug
\* build; in a release build it wraps and self[0] panics).
RECURSIVE jv_eq(_, _)
RECURSIVE jv_eq_members(_, _, _, _)
jv_eq_members(a, b, i, last) ==
  IF i > last THEN "true"
  ELSE LET e == jv_eq(a[i], b[i])
       IN IF e = "true" THEN jv_eq_members(a, b, i + 1, last)
          ELSE e

jv_eq(a, b) ==
  IF is_undefined(a) /\ is_undefined(b) THEN "true"
  ELSE IF is_raw(a) /\ is_raw(b) THEN IF value_eq(a, b) THEN "true" ELSE "false"
  ELSE IF is_array(a) /\ is_array(b)
       THEN IF len(a) # len(b) THEN "false"
            ELSE IF len(a) = 0 THEN "panic"
            ELSE jv_eq_members(a.m, b.m, 1, len(a) - 1)
  ELSE "false"

jv_collapse(res) ==
  IF is_seq(res)
  THEN IF len(res) = 0 THEN Undefined
       ELSE IF len(res) = 1 THEN get_member(res, 0)
       ELSE res
  ELSE res

\* The result is stored as it is: no check for an infinite result.
evaluate_numeric(op, lhs, rhs, pos, st) ==
  IF ~is_raw(lhs) THEN Panic("unexpected Value type", st)
  ELSE IF ~is_number(lhs) THEN Err("T2001", pos, st)
  ELSE IF ~is_raw(rhs) THEN Panic("unexpected Value type", st)
  ELSE IF ~is_number(rhs) THEN Err("T2002", pos, st)
  ELSE Ok(f64_arith(op, lhs, rhs), st)

evaluate_comparison(op, lhs, rhs, pos, st) ==
  IF is_undefined(lhs) THEN Ok(Undefined, st)
  ELSE IF ~is_raw(lhs) THEN Panic("unexpected Value type", st)
  ELSE IF is_undefined(rhs) THEN Ok(Undefined, st)
  ELSE IF ~is_raw(rhs) THEN Panic("unexpected Value type", st)
  ELSE IF ~((is_number(lhs) \/ is_string(lhs)) /\ (is_number(rhs) \/ is_string(rhs)))
       THEN Err("T2010", pos, st)
  ELSE IF is_number(lhs) /\ is_number(rhs) THEN Ok(Bool(f64_compare(op, lhs, rhs)), st)
  ELSE IF is_string(lhs) /\ is_string(rhs) THEN Ok(Bool(str_compare(op, lhs.s, rhs.s)), st)
  ELSE Err("T2009", pos, st)

evaluate_boolean(op, lhs, rhs, st) ==
  Ok(Bool(IF op = "And" THEN is_truthy(lhs) /\ is_truthy(rhs)
          ELSE is_truthy(lhs) \/ is_truthy(rhs)), st)

evaluate_equality(op, lhs, rhs, st) ==
  LET e == jv_eq(lhs, rhs)
  IN IF e = "panic" THEN Panic("index out of bounds", st)
     ELSE Ok(Bool(IF op = "Equal" THEN e = "true" ELSE e = "false"), st)

RECURSIVE includes_raw(_, _, _)
includes_raw(m, lhs, i) ==
  IF i > Len(m) THEN "false"
  ELSE IF is_raw(m[i])
       THEN IF ~is_raw(lhs) THEN "panic"
            ELSE IF value_eq(lhs, m[i]) THEN "true" ELSE includes_raw(m, lhs, i + 1)
       ELSE includes_raw(m, lhs, i + 1)

evaluate_includes(lhs, rhs, st) ==
  IF ~is_array(rhs)
  THEN IF ~is_raw(lhs) \/ ~is_raw(rhs) THEN Panic("unexpected Value type", st)
       ELSE Ok(Bool(value_eq(lhs, rhs)), st)
  ELSE LET e == includes_raw(rhs.m, lhs, 1)
       IN IF e = "panic" THEN Panic("unexpected Value type", st) ELSE Ok(Bool(e = "true"), st)

evaluate_concat(lhs, rhs, st) ==
  IF is_undefined(lhs) \/ is_undefined(rhs) THEN Panic("unwrap on None", st)
  ELSE Ok(String(fn_string(lhs).s \o fn_string(rhs).s), st)

RECURSIVE jv_evaluate(_, _, _, _)
RECURSIVE jv_evaluate_kind(_, _, _, _)
RECURSIVE jv_evaluate_unary_op(_, _, _, _)
RECURSIVE jv_evaluate_items(_, _, _, _, _, _)
RECURSIVE jv_evaluate_binary_op(_, _, _, _)
RECURSIVE evaluate_bind_expression(_, _, _, _)
RECURSIVE jv_evaluate_block(_, _, _, _)
RECURSIVE jv_evaluate_exprs(_, _, _, _, _, _)
RECURSIVE jv_evaluate_ternary(_, _, _, _)
RECURSIVE jv_evaluate_path(_, _, _, _)
RECURSIVE jv_evaluate_steps(_, _, _, _, _, _)
RECURSIVE jv_evaluate_step(_, _, _, _, _)
RECURSIVE jv_evaluate_step_members(_, _, _, _, _, _)

evaluate_variable(name, f, st) ==
  LET l == lookup(st.fs, f, name) IN Ok(IF Len(l) = 1 THEN l[1] ELSE Undefined, st)

jv_evaluate_kind(node, input, f, st) ==
  CASE node.kind = "Null" -> Ok(Null, st)
    [] node.kind = "Bool" -> Ok(Bool(node.b), st)
    [] node.kind = "String" -> Ok(String(node.s), st)
    [] node.kind = "Number" -> Ok(node.n, st)
    [] node.kind = "Name" -> Ok(fn_lookup_internal(input, node.name), st)
    [] node.kind = "Unary" -> jv_evaluate_unary_op(node, input, f, st)
    [] node.kind = "Binary" -> jv_evaluate_binary_op(node, input, f, st)
    [] node.kind = "Block" -> jv_evaluate_block(node, input, f, st)
    [] node.kind = "Ternary" -> jv_evaluate_ternary(node, input, f, st)
    [] node.kind = "Var" -> evaluate_variable(node.name, f, st)
    [] node.kind = "Path" -> jv_evaluate_path(node, input, f, st)
    [] OTHER -> Panic("unimplemented", st)

\* The end of evaluate: r is the outcome of the node's handler.
jv_evaluate_result(node, f, r) ==
  IF r.t # "ok" THEN r
  ELSE Ok(jv_collapse(r.v),
          [r.st EXCEPT !.log = Append(@, [pos |-> node.position, frame |-> f, raw |-> r.v,
                                          keep_array |-> FALSE, out |-> jv_collapse(r.v)])])

jv_evaluate(node, input, f, st) ==
  jv_evaluate_result(node, f, jv_evaluate_kind(node, input, f, Note(st, node.position)))

jv_evaluate_items(items, i, res, input, f, st) ==
  IF i > Len(items) THEN Ok(res, st)
  ELSE LET r == jv_evaluate(items[i], input, f, st)
       IN IF r.t # "ok" THEN r
          ELSE jv_evaluate_items(items, i + 1,
                 IF is_undefined(r.v) THEN res
                 ELSE IF items[i].kind = "Unary" /\ items[i].op = "ArrayConstructor"
                 THEN push(res, r.v) ELSE fn_append(res, r.v),
                 input, f, r.st)

jv_evaluate_unary_op(node, input, f, st) ==
  CASE node.op = "Minus" ->
         LET r == jv_evaluate(node.arg, input, f, st)
         IN IF r.t # "ok" THEN r
            ELSE IF ~is_raw(r.v) THEN Panic("`result` should've been an Input::Value", r.st)
            ELSE IF is_number(r.v) THEN Ok(f64_neg(r.v), r.st)
            ELSE Err("D1002", node.position, r.st)
    [] node.op = "ArrayConstructor" ->
         LET r == jv_evaluate_items(node.items, 1, Array(<<>>, {}), input, f, st)
         IN IF r.t # "ok" THEN r
            ELSE Ok(IF node.keep_array THEN add_flags(r.v, "KEEP_ARRAY") ELSE r.v, r.st)
    [] OTHER -> Panic("unimplemented", st)

evaluate_bind_expression(node, input, f, st) ==
  LET r == jv_evaluate(node.rhs, input, f, st)
  IN IF r.t # "ok" THEN r
     ELSE IF ~is_undefined(r.v) /\ node.lhs.kind = "Var"
     THEN Ok(Undefined, bind(r.st, f, node.lhs.name, to_json(r.v)))
     ELSE Ok(Undefined, r.st)

jv_evaluate_binary_op(node, input, f, st) ==
  IF node.op = "Bind" THEN evaluate_bind_expression(node, input, f, st)
  ELSE IF node.op \notin ArithOps \cup CompareOps \cup EqualityOps \cup {"Concat", "Or", "And", "In"}
  THEN Panic("unimplemented", st)
  ELSE
  LET l == jv_evaluate(node.lhs, input, f, st)
      r == jv_evaluate(node.rhs, input, f, l.st)
  IN IF l.t # "ok" THEN l
     ELSE IF r.t # "ok" THEN r
     ELSE CASE node.op \in ArithOps -> evaluate_numeric(node.op, l.v, r.v, node.position, r.st)
            [] node.op \in CompareOps ->
                 evaluate_comparison(node.op, l.v, r.v, node.position, r.st)
            [] node.op \in EqualityOps -> evaluate_equality(node.op, l.v, r.v, r.st)
            [] node.op = "Concat" -> evaluate_concat(l.v, r.v, r.st)
            [] node.op \in {"Or", "And"} -> evaluate_boolean(node.op, l.v, r.v, r.st)
            [] node.op = "In" -> evaluate_includes(l.v, r.v, r.st)

jv_evaluate_exprs(exprs, i, res, input, f, st) ==
  IF i > Len(exprs) THEN Ok(res, st)
  ELSE LET r == jv_evaluate(exprs[i], input, f, st)
       IN IF r.t # "ok" THEN r ELSE jv_evaluate_exprs(exprs, i + 1, r.v, input, f, r.st)

jv_evaluate_block(node, input, f, st) ==
  LET st1 == new_with_parent(st, f)
  IN block_result(f, st.fs,
       jv_evaluate_exprs(node.exprs, 1, Undefined, input, newest_frame(st1), st1))

jv_evaluate_ternary(node, input, f, st) ==
  LET c == jv_evaluate(node.cond, input, f, st)
  IN IF c.t # "ok" THEN c
     ELSE IF is_truthy(c.v) THEN jv_evaluate(node.truthy, input, f, c.st)
     ELSE IF Len(node.falsy) = 1 THEN jv_evaluate(node.falsy[1], input, f, c.st)
     ELSE Ok(Undefined, c.st)

RECURSIVE jv_flatten(_, _, _)
jv_flatten(m, i, acc) ==
  IF i > Len(m) THEN acc
  ELSE jv_flatten(m, i + 1,
         IF ~is_array(m[i]) \/ keep_array(m[i]) THEN Append(acc, m[i])
         ELSE acc \o m[i].m)

jv_step_result(res, last_step) ==
  IF last_step /\ len(res) = 1 /\ is_array(get_member(res, 0)) /\ ~is_seq(get_member(res, 0))
  THEN get_member(res, 0)
  ELSE Array(jv_flatten(res.m, 1, <<>>), {"SEQUENCE"})

jv_evaluate_step_members(step, m, i, res, f, st) ==
  IF i > Len(m) THEN Ok(res, st)
  ELSE LET r == jv_evaluate(step, m[i], f, st)
       IN IF r.t # "ok" THEN r
          ELSE jv_evaluate_step_members(step, m, i + 1,
                 IF is_undefined(r.v) THEN res ELSE push(res, r.v), f, r.st)

jv_evaluate_step(step, input, f, last_step, st) ==
  LET r == jv_evaluate_step_members(step, input.m, 1, Array(<<>>, {"SEQUENCE"}), f, st)
  IN IF r.t # "ok" THEN r
     ELSE Ok(jv_step_result(r.v, last_step),
             Stepped(r.st, step, input, r.v.m, jv_step_result(r.v, last_step)))

jv_evaluate_steps(steps, i, input, res, f, st) ==
  IF i > Len(steps) THEN Ok(res, st)
  ELSE LET r == jv_evaluate_step(steps[i], input, f, i = Len(steps), st)
       IN IF r.t # "ok" THEN r
          ELSE IF is_undefined(r.v) THEN Ok(r.v, r.st)
          ELSE IF ~is_array(r.v) THEN Panic("unexpected Value::Raw", r.st)
          ELSE IF is_empty(r.v) THEN Ok(r.v, r.st)
          ELSE jv_evaluate_steps(steps, i + 1, r.v, r.v, f, r.st)

jv_evaluate_path(node, input, f, st) ==
  LET inp == IF is_array(input) THEN input ELSE wrap_in_array(input, {"SEQUENCE"})
  IN jv_evaluate_steps(node.steps, 1, inp, Undefined, f, st)

----------------------------------------------------------------------------
(* The tokenizer (parser/tokenizer.rs).  A char is a string of length one, *)
(* the input a sequence of chars.  A Tokenizer is the record of its fields *)
(* input, chars (the number of chars the iterator has given out),          *)
(* previous_token_kind, byte_index, char_index, start_byte_index and       *)
(* start_char_index.  A scan gives Ok(kind, tokenizer) or                  *)
(* Err(code, position, tokenizer); a kind is <<kind, value>>.              *)

\* char::is_alphabetic, the digits and char::len_utf8 on the chars of the inputs.
Letters == {"a", "d", "e", "i", "l", "m", "n", "o", "r", "t", "u", "x", "é"}

Digits == {"0", "1", "2", "3", "4", "5", "6", "7", "8", "9"}

len_utf8(c) == IF c = "é" THEN 2 ELSE 1

\* str::parse::<f64> accepts digits with an optional fraction and exponent.
IsF64(s) ==
  \E i \in 1..Len(s), j \in 0..Len(s), k \in 0..Len(s) :
    /\ i <= j /\ j <= k /\ k = Len(s)
    /\ \A p \in 1..i : s[p] \in Digits
    /\ j > i => s[i + 1] = "." /\ \A p \in (i + 2)..j : s[p] \in Digits
    /\ k > j => /\ s[j + 1] \in {"e", "E"}
                /\ \E q \in (j + 1)..(k - 1) :
                     /\ \A p \in (j + 2)..q : s[p] \in {"+", "-"} /\ p = j + 2
                     /\ \A p \in (q + 1)..k : s[p] \in Digits

NULL == "NUL"

\* The char ` of backtick names.
Backtick == "backtick"

is_whitespace(c) == c \in {"\t", "\n", " "}

is_operator(c) ==
  c \in {".", "[", "]", "{", "}", "(", ")", ",", "@", "#", ";", ":", "?", "+", "-", "*", "/",
         "%", "|", "=", "<", ">", "^", "&", "!", "~"}

can_precede_regex_or_paren(kind) ==
  kind \in {"Start", "Apply", "LeftBrace", "LeftParen", "LeftBracket", "Comma", "Bind", "And",
            "Or", "Equal", "NotEqual", "LeftAngleBracket", "RightAngleBracket", "LessEqual",
            "GreaterEqual", "RightParen"}

can_precede_regex(kind) ==
  kind \in {"Start", "Apply", "LeftBrace", "LeftParen", "LeftBracket", "Comma", "Bind", "And",
            "Or", "Equal", "NotEqual", "LeftAngleBracket", "RightAngleBracket", "LessEqual",
            "GreaterEqual"}

eof(t) == t.chars >= Len(t.input)

peek(t) == IF t.chars < Len(t.input) THEN t.input[t.chars + 1] ELSE NULL

\* The iterator gives NULL at the end of the input, and bump counts it too.
bump(t) ==
  [t EXCEPT !.chars = IF eof(t) THEN @ ELSE @ + 1,
            !.byte_index = @ + len_utf8(peek(t)),
            !.char_index = @ + 1]

\* p is the predicate: <<"is_whitespace", "">>, <<"until", c>> for |c'| c' != c,
\* <<"name", "">> for |c| !(is_whitespace(c) || is_operator(c)).
RECURSIVE eat_while(_, _)
eat_while(t, p) ==
  LET c == peek(t)
      predicate == CASE p[1] = "is_whitespace" -> is_whitespace(c)
                     [] p[1] = "until" -> c # p[2]
                     [] p[1] = "name" -> ~(is_whitespace(c) \/ is_operator(c))
  IN IF predicate /\ ~eof(t) THEN eat_while(bump(t), p) ELSE t

\* The loop of the comment arm, entered after the opening /* .
RECURSIVE skip_comment(_)
skip_comment(t) ==
  LET a == bump(eat_while(t, <<"until", "*">>))
  IN IF eof(a) THEN Err("S0106", a.start_char_index, a)
     ELSE IF peek(a) = "/" THEN Ok(<<"Comment", <<>>>>, bump(a))
     ELSE skip_comment(bump(a))

\* The regex arm: the loop over the pattern (mode "pattern"), then the loop
\* over the flags.  RegexLiteral::new accepts the patterns of the inputs.
RECURSIVE scan_regex(_, _, _, _, _, _)
scan_regex(t, mode, buffer, is_escape, case_insensitive, multi_line) ==
  LET c == peek(t)
  IN IF mode = "pattern"
     THEN IF c = "\\" THEN scan_regex(bump(t), mode, Append(buffer, c), TRUE, FALSE, FALSE)
          ELSE IF c = "/" /\ ~is_escape
          THEN IF buffer = <<>> THEN Err("S0301", t.start_char_index, bump(t))
               ELSE scan_regex(bump(t), "flags", buffer, FALSE, FALSE, FALSE)
          ELSE IF eof(t) THEN Err("S0302", t.start_char_index, t)
          ELSE scan_regex(bump(t), mode, Append(buffer, c), FALSE, FALSE, FALSE)
     ELSE IF c = "i" /\ ~case_insensitive
          THEN scan_regex(bump(t), mode, buffer, FALSE, TRUE, multi_line)
          ELSE IF c = "m" /\ ~multi_line
          THEN scan_regex(bump(t), mode, buffer, FALSE, case_insensitive, TRUE)
          ELSE IF c \in Letters \cup Digits THEN Err("S0303", t.start_char_index, t)
          ELSE Ok(<<"Regex", buffer>>, t)

RECURSIVE scan_number(_)
scan_number(t) ==
  LET c == peek(t)
      peek_second == IF t.chars + 1 < Len(t.input) THEN t.input[t.chars + 2] ELSE NULL
      slice == SubSeq(t.input, t.start_char_index + 1, t.chars)
  IN IF c = "." /\ peek_second # "." THEN scan_number(bump(t))
     ELSE IF c \in {"e", "E"}
     THEN scan_number(IF peek(bump(t)) \in {"+", "-"} THEN bump(bump(t)) ELSE bump(t))
     ELSE IF c \in Digits THEN scan_number(bump(t))
     ELSE IF IsF64(slice) THEN Ok(<<"Number", slice>>, t)
     ELSE Err("S0201", t.char_index, t)

\* The match on self.bump() of next_token: t0 is the tokenizer before the bump.
scan_kind(t0) ==
  LET c == peek(t0)
      t == bump(t0)
      name == eat_while(t, <<"name", "">>)
      text == SubSeq(t.input, t0.chars + 1, name.chars)
      quoted == eat_while(t, <<"until", c>>)
  IN CASE c = NULL -> Ok(<<"End", <<>>>>, t)
       [] is_whitespace(c) -> Ok(<<"Whitespace", <<>>>>, eat_while(t, <<"is_whitespace", "">>))
       [] c = "/" ->
            IF peek(t) = "*" THEN skip_comment(bump(t))
            ELSE IF can_precede_regex(t.previous_token_kind)
            THEN scan_regex(t, "pattern", <<>>, FALSE, FALSE, FALSE)
            ELSE Ok(<<"ForwardSlash", <<>>>>, t)
       [] c = "." -> IF peek(t) = "." THEN Ok(<<"Range", <<>>>>, bump(t)) ELSE Ok(<<"Period", <<>>>>, t)
       [] c = ":" -> IF peek(t) = "=" THEN Ok(<<"Bind", <<>>>>, bump(t)) ELSE Ok(<<"Colon", <<>>>>, t)
       [] c = "!" ->
            IF peek(t) = "=" THEN Ok(<<"NotEqual", <<>>>>, bump(t))
            ELSE Ok(<<"ExclamationMark", <<>>>>, t)
       [] c = "*" ->
            IF peek(t) = "*" THEN Ok(<<"Descendent", <<>>>>, bump(t)) ELSE Ok(<<"Asterisk", <<>>>>, t)
       [] c = "~" -> IF peek(t) = ">" THEN Ok(<<"Apply", <<>>>>, bump(t)) ELSE Ok(<<"Tilde", <<>>>>, t)
       [] c = ">" ->
            IF peek(t) = "=" THEN Ok(<<"GreaterEqual", <<>>>>, bump(t))
            ELSE Ok(<<"RightAngleBracket", <<>>>>, t)
       [] c = "<" ->
            IF peek(t) = "=" THEN Ok(<<"LessEqual", <<>>>>, bump(t))
            ELSE Ok(<<"LeftAngleBracket", <<>>>>, t)
       [] c = "[" -> Ok(<<"LeftBracket", <<>>>>, t)
       [] c = "]" -> Ok(<<"RightBracket", <<>>>>, t)
       [] c = "{" -> Ok(<<"LeftBrace", <<>>>>, t)
       [] c = "}" -> Ok(<<"RightBrace", <<>>>>, t)
       [] c = "(" -> Ok(<<"LeftParen", <<>>>>, t)
       [] c = ")" -> Ok(<<"RightParen", <<>>>>, t)
       [] c = "," -> Ok(<<"Comma", <<>>>>, t)
       [] c = "@" -> Ok(<<"At", <<>>>>, t)
       [] c = "#" -> Ok(<<"Hash", <<>>>>, t)
       [] c = ";" -> Ok(<<"SemiColon", <<>>>>, t)
       [] c = "?" -> Ok(<<"QuestionMark", <<>>>>, t)
       [] c = "+" -> Ok(<<"Plus", <<>>>>, t)
       [] c = "-" -> Ok(<<"Minus", <<>>>>, t)
       [] c = "%" -> Ok(<<"PercentSign", <<>>>>, t)
       [] c = "|" -> Ok(<<"Pipe", <<>>>>, t)
       [] c = "=" -> Ok(<<"Equal", <<>>>>, t)
       [] c = "^" -> Ok(<<"Caret", <<>>>>, t)
       [] c = "&" -> Ok(<<"Ampersand", <<>>>>, t)
       [] c = Backtick ->
            IF eof(quoted) THEN Err("S0105", t.start_char_index, quoted)
            ELSE Ok(<<"Name", SubSeq(t.input, t.chars + 1, quoted.chars)>>, bump(quoted))
       \* a string literal in double quotes; the inputs hold no backslash, so
       \* no escape is met
       [] c = "\"" ->
            IF ~eof(quoted)
            THEN Ok(<<"Str", SubSeq(t.input, t.chars + 1, quoted.chars)>>, bump(quoted))
            ELSE Err("S0101", t.start_char_index, IF eof(t) THEN bump(t) ELSE quoted)
       [] c = "0" -> IF eof(t) THEN Ok(<<"Number", <<"0">>>>, t) ELSE scan_number(t)
       [] c \in Digits \ {"0"} -> scan_number(t)
       [] c \in Letters \cup {"$"} ->
            IF c = "$" THEN Ok(<<"Var", Tail(text)>>, name)
            ELSE IF text = <<"o", "r">> THEN Ok(<<"Or", <<>>>>, name)
            ELSE IF text = <<"i", "n">> THEN Ok(<<"In", <<>>>>, name)
            ELSE IF text = <<"a", "n", "d">> THEN Ok(<<"And", <<>>>>, name)
            ELSE IF text = <<"t", "r", "u", "e">> THEN Ok(<<"Bool", text>>, name)
            ELSE IF text = <<"f", "a", "l", "s", "e">> THEN Ok(<<"Bool", text>>, name)
            ELSE IF text = <<"n", "u", "l", "l">> THEN Ok(<<"Null", <<>>>>, name)
            ELSE Ok(<<"Name", text>>, name)
       [] OTHER -> Err("S0204", t.start_char_index, t)

\* next_token: the loop that skips Whitespace and Comment, then the Token.
RECURSIVE next_token(_)
next_token(t) ==
  LET r == scan_kind([t EXCEPT !.start_byte_index = t.byte_index,
                               !.start_char_index = t.char_index])
  IN IF r.t # "ok" THEN r
     ELSE IF r.v[1] \in {"Whitespace", "Comment"} THEN next_token(r.st)
     ELSE Ok([kind |-> r.v[1], value |-> r.v[2],
              char_index |-> r.st.start_char_index,
              byte_index |-> r.st.start_byte_index,
              len |-> r.st.byte_index - r.st.start_byte_index],
             [r.st EXCEPT !.previous_token_kind = r.v[1]])

----------------------------------------------------------------------------
(* The cases: an expression (as its AST) and the input document it is      *)
(* evaluated on, as the test suite runs them (tests/testsuite.rs).         *)

MaxInt == 2

Ints == 0..MaxInt

\* The operand expressions, by name; the literal named "int" is the number i.
LeafNames ==
  {"undef", "null", "true", "false", "half", "str_a", "str_b", "arr", "arr10", "arr0",
   "name", "bad", "bind"}

LeafTags == {<<n, 0>> : n \in LeafNames} \cup {<<"int", i>> : i \in Ints}

\* An operand expression at position pos (its parts at pos + 1, pos + 2).
Leaf(tag, pos) ==
  CASE tag[1] = "undef" -> AstVar(pos, "nosuch")
    [] tag[1] = "null" -> AstNull(pos)
    [] tag[1] = "true" -> AstBool(pos, TRUE)
    [] tag[1] = "false" -> AstBool(pos, FALSE)
    [] tag[1] = "half" -> AstNumber(pos, Number(1, 2))
    [] tag[1] = "str_a" -> AstString(pos, "a")
    [] tag[1] = "str_b" -> AstString(pos, "b")
    [] tag[1] = "arr" ->
         AstArray(pos, <<AstNumber(pos + 1, Int2Num(1)), AstNumber(pos + 2, Int2Num(2))>>)
    [] tag[1] = "arr10" ->
         AstArray(pos, <<AstNumber(pos + 1, Int2Num(1)), AstNumber(pos + 2, Int2Num(0))>>)
    [] tag[1] = "arr0" -> AstArray(pos, <<>>)
    [] tag[1] = "name" -> AstName(pos, "a")
    [] tag[1] = "bad" ->
         AstBinary(pos, "Add", AstNumber(pos + 1, Int2Num(1)), AstString(pos + 2, "a"))
    [] tag[1] = "bind" ->
         AstBinary(pos, "Bind", AstVar(pos + 1, "x"), AstNumber(pos + 2, Int2Num(1)))
    [] tag[1] = "big" -> AstNumber(pos, Int2Num(RangeCap + 2))
    [] tag[1] = "neg" -> AstMinus(pos, AstNumber(pos + 1, Int2Num(tag[2])))
    [] tag[1] = "count" -> AstVar(pos, "count")
    [] tag[1] = "lambda" -> AstLambda(pos, <<AstVar(pos + 1, "a")>>, AstVar(pos + 2, "a"))
    [] tag[1] = "int" -> AstNumber(pos, Int2Num(tag[2]))

\* The endpoints of the range cases: "big" is a literal just above the cap,
\* "neg" the negation -i of the literal i.
RangeTags == LeafTags \cup {<<"big", 0>>} \cup {<<"neg", i>> : i \in 1..MaxInt}

BinaryOps ==
  ArithOps \cup CompareOps \cup EqualityOps \cup {"Concat", "And", "Or", "In"}

DocA == Object(<<[key |-> "a", val |-> Int2Num(1)]>>)

\* ( L op R ; $x ) on {"a": 1}: the block shows whether $x was bound by an operand.
BinaryCases ==
  {[ast |-> AstBlock(1, <<AstBinary(2, op, Leaf(l, 10), Leaf(r, 20)), AstVar(3, "x")>>),
    data |-> DocA, seed |-> 0] : op \in BinaryOps, l \in LeafTags, r \in LeafTags}

\* ( L .. R ; $x ) on {"a": 1}.
RangeCases ==
  {[ast |-> AstBlock(1, <<AstBinary(2, "Range", Leaf(l, 10), Leaf(r, 20)), AstVar(3, "x")>>),
    data |-> DocA, seed |-> 0] : l \in RangeTags, r \in RangeTags}

Keep(node) == [node EXCEPT !.keep_array = TRUE]

KeepSingleton(node) == [node EXCEPT !.keep_singleton_array = TRUE]

Obj1(key, v) == Object(<<[key |-> key, val |-> v]>>)

JsonArray(m) == Array(m, {})

\* The input documents of the path cases.
Docs ==
  {Null, DocA, Obj1("a", JsonArray(<<Int2Num(1), Int2Num(2)>>)),
   Obj1("a", JsonArray(<<Int2Num(1)>>)), Obj1("a", JsonArray(<<>>)),
   Obj1("a", Obj1("b", Int2Num(1))),
   Obj1("a", JsonArray(<<Obj1("b", Int2Num(1)), Obj1("b", Int2Num(2))>>)),
   JsonArray(<<JsonArray(<<DocA>>)>>), JsonArray(<<DocA, DocA>>)}

StepNames == {<<"a">>, <<"nosuch">>, <<"a", "b">>, <<"a", "nosuch">>}

\* The steps n1.n2...; with keep the last step is written n[].
RECURSIVE Steps(_, _, _)
Steps(names, i, keep) ==
  IF i > Len(names) THEN <<>>
  ELSE <<IF keep /\ i = Len(names) THEN Keep(AstName(10 * i, names[i]))
         ELSE AstName(10 * i, names[i])>> \o Steps(names, i + 1, keep)

PathAst(names, keep) ==
  LET p == AstPath(1, Steps(names, 1, keep)) IN IF keep THEN KeepSingleton(p) ELSE p

\* n.S with a second step S that binds $x, fails, or builds the array [b].
LaterSteps ==
  {Leaf(<<"bind", 0>>, 20), Leaf(<<"bad", 0>>, 20), AstArray(20, <<AstName(21, "b")>>),
   AstArray(20, <<AstName(21, "nosuch")>>)}

PathCases ==
  {[ast |-> PathAst(names, keep), data |-> d, seed |-> 0] :
     names \in StepNames, keep \in BOOLEAN, d \in Docs}
  \cup {[ast |-> AstPath(1, <<AstName(10, n)>> \o later), data |-> d, seed |-> 0] :
          n \in {"a", "nosuch"}, d \in Docs,
          later \in {<<s>> : s \in LaterSteps} \cup {<<s, AstName(30, "b")>> : s \in LaterSteps}}

\* ( $f := function(){$y}; ( $y := v; $f() ) ): $y is bound where $f is called.
CalledWithY(v) ==
  AstBlock(1, <<AstBinary(2, "Bind", AstVar(3, "f"), AstLambda(4, <<>>, AstVar(5, "y"))),
                AstBlock(6, <<AstBinary(7, "Bind", AstVar(8, "y"), AstNumber(9, Int2Num(v))),
                              AstFunction(10, AstVar(11, "f"), <<>>)>>)>>)

\* ( $f := ( $y := v; function(){$y} ); $f() ): $y is bound where $f is defined.
DefinedWithY(v) ==
  AstBlock(1, <<AstBinary(2, "Bind", AstVar(3, "f"),
                          AstBlock(4, <<AstBinary(5, "Bind", AstVar(6, "y"),
                                                  AstNumber(7, Int2Num(v))),
                                        AstLambda(8, <<>>, AstVar(9, "y"))>>)),
                AstFunction(10, AstVar(11, "f"), <<>>)>>)

\* ( $y := v; $f := function(){$y}; $f() ): defined and called in one frame.
SameFrame(v) ==
  AstBlock(1, <<AstBinary(2, "Bind", AstVar(3, "y"), AstNumber(4, Int2Num(v))),
                AstBinary(5, "Bind", AstVar(6, "f"), AstLambda(7, <<>>, AstVar(8, "y"))),
                AstFunction(9, AstVar(10, "f"), <<>>)>>)

\* ( $f := function($a){$a}; $f(v) ).
WithParameter(v) ==
  AstBlock(1, <<AstBinary(2, "Bind", AstVar(3, "f"),
                          AstLambda(4, <<AstVar(5, "a")>>, AstVar(6, "a"))),
                AstFunction(7, AstVar(8, "f"), <<AstNumber(9, Int2Num(v))>>)>>)

LambdaCases ==
  {[ast |-> a, data |-> DocA, seed |-> 0] :
     a \in UNION {{CalledWithY(v), DefinedWithY(v), SameFrame(v), WithParameter(v)} :
                    v \in Ints}}

\* ( $x := L ; $x ) and, for an integer L, ( $x := L ; $x + 1 ).
BindCases ==
  {[ast |-> AstBlock(1, <<AstBinary(2, "Bind", AstVar(3, "x"), Leaf(l, 10)), AstVar(4, "x")>>),
    data |-> DocA, seed |-> 0] : l \in LeafTags}
  \cup
  {[ast |-> AstBlock(1, <<AstBinary(2, "Bind", AstVar(3, "x"), Leaf(<<"int", i>>, 10)),
                          AstBinary(5, "Add", AstVar(4, "x"), AstNumber(6, Int2Num(1)))>>),
    data |-> DocA, seed |-> 0] : i \in Ints}

\* The operands of the chain cases: the leaves and two function values.
ApplyTags == LeafTags \cup {<<"count", 0>>, <<"lambda", 0>>}

\* ( L ~> R ; $x ) where R is not written as a call.
ApplyCases ==
  {[ast |-> AstBlock(1, <<AstBinary(2, "Apply", Leaf(l, 10), Leaf(r, 20)), AstVar(3, "x")>>),
    data |-> DocA, seed |-> 0] : l \in ApplyTags, r \in ApplyTags}

MaxArgs == 4

\* The written arguments 1, 2, ..., k of a call.
CallArgs(k) == [j \in 1..k |-> AstNumber(30 + j, Int2Num(j))]

\* $name(1, ..., k); the callee "forgot" is f written without its $: f(1, ..., k).
CallAst(name, k) ==
  AstFunction(20, IF name = "forgot" THEN AstPath(21, <<AstName(22, "f")>>)
                  ELSE AstVar(21, name), CallArgs(k))

\* The callees: the lambda $f of the case, the natives of the root frame, a
\* variable that is not bound, and f without its $.
Callees == {"f", "now", "count", "append", "substring", "nosuch", "forgot"}

\* The context of a call: none, or the leaf C of C ~> $name(...).
Contexts == {<<"none", 0>>, <<"undef", 0>>, <<"str_a", 0>>, <<"arr", 0>>, <<"int", 0>>}

\* ( $f := function($a, $b){$b}; $name(1, ..., k) ), the call on its own or as
\* the right-hand side of C ~> $name(1, ..., k).
CallCase(name, k, c) ==
  AstBlock(1, <<AstBinary(2, "Bind", AstVar(3, "f"),
                          AstLambda(40, <<AstVar(41, "a"), AstVar(42, "b")>>, AstVar(43, "b"))),
                IF c[1] = "none" THEN CallAst(name, k)
                ELSE AstBinary(10, "Apply", Leaf(c, 11), CallAst(name, k))>>)

\* substring is called with more than three arguments only.
CallCases ==
  {[ast |-> CallCase(name, k, c), data |-> DocA, seed |-> 0] :
     <<name, k, c>> \in {t \in Callees \X (0..MaxArgs) \X Contexts :
                           t[1] = "substring" => t[2] + (IF t[3][1] = "none" THEN 0 ELSE 1) > 3}}

\* The members of the input of the group cases: {"k": "a"}, {"k": "b"}, {"k": 1}.
GroupItems == {Obj1("k", String("a")), Obj1("k", String("b")), Obj1("k", Int2Num(1))}

MaxItems == 3

\* The inputs of the group cases: the arrays of at most MaxItems members, and
\* a member on its own.
GroupDocs ==
  GroupItems \cup {JsonArray(m) : m \in UNION {[1..n -> GroupItems] : n \in 0..MaxItems}}

\* The key expressions "a", "b" and k (the member's field k), at position pos.
GroupKey(tag, pos) == IF tag = "k" THEN AstName(pos, "k") ELSE AstString(pos, tag)

\* The pair  key : $  with its key at position 10 * j and its value at 10 * j + 1.
GroupPairs(tags) == [j \in 1..Len(tags) |-> <<GroupKey(tags[j], 10 * j), AstVar(10 * j + 1, "")>>]

\* {K1: $} and {K1: $, K2: $} on the inputs.
\* The hashers a HashMap::new() can get: one that iterates in insertion order
\* and one that iterates in the opposite order.
Seeds == {0, 1}

GroupCases ==
  {[ast |-> AstObject(1, GroupPairs(tags)), data |-> d, seed |-> s] :
     tags \in UNION {[1..n -> {"a", "b", "k"}] : n \in 1..2}, d \in GroupDocs, s \in Seeds}

\* ( -L ; $x )
MinusCases ==
  {[ast |-> AstBlock(1, <<AstMinus(2, Leaf(l, 10)), AstVar(3, "x")>>),
    data |-> DocA, seed |-> 0] : l \in LeafTags}

\* The path n1.n2...{"x": $}: a path with a group expression.
PathGroupAst(names) ==
  [PathAst(names, FALSE) EXCEPT
     !.group_by = <<[position |-> 60, pairs |-> <<<<AstString(61, "x"), AstVar(62, "")>>>>]>>]

PathGroupCases ==
  {[ast |-> PathGroupAst(names), data |-> d, seed |-> 0] :
     names \in StepNames, d \in Docs \cup {JsonArray(<<>>)}}

\* $[F]: the input with the one predicate F.
Filtered(F) == [AstVar(1, "") EXCEPT !.predicates = <<AstFilter(2, F)>>]

MaxLen == 3

\* The inputs of the cases $[n]: the arrays of at most MaxLen members, one of
\* them an array, and two inputs that are not arrays.
IndexDocs ==
  {String("a"), DocA}
    \cup {JsonArray(m) : m \in UNION {[1..n -> {String("a"), Null, JsonArray(<<Int2Num(1)>>)}] :
                                        n \in 0..MaxLen}}

\* The literal numbers n of the cases $[n].
Indexes ==
  {Int2Num(i) : i \in (0 - MaxLen - 1)..(MaxLen + 1)} \cup {Number(1, 2), Number(-1, 2), Number(3, 2)}

\* $[n] with a literal number n.
IndexCases ==
  {[ast |-> Filtered(AstNumber(3, n)), data |-> d, seed |-> 0] : n \in Indexes, d \in IndexDocs}

\* What the field i of a member holds in the cases $[i].
Selectors ==
  {Int2Num(0), Int2Num(1), Int2Num(-1), Number(1, 2), Bool(TRUE), Bool(FALSE), String("a"),
   String(""), Null, JsonArray(<<>>), JsonArray(<<Int2Num(0), Int2Num(0)>>),
   JsonArray(<<Int2Num(0), Int2Num(1)>>), JsonArray(<<Int2Num(-1), Int2Num(-2)>>),
   JsonArray(<<Bool(TRUE)>>)}

\* $[i] on the arrays of at most two members {"i": v}.
SelectCases ==
  {[ast |-> Filtered(AstName(3, "i")), data |-> JsonArray(m), seed |-> 0] :
     m \in UNION {[1..n -> {Obj1("i", v) : v \in Selectors}] : n \in 0..2}}

Cases ==
  BinaryCases \cup RangeCases \cup PathCases \cup LambdaCases \cup BindCases
    \cup ApplyCases \cup CallCases \cup GroupCases \cup MinusCases \cup PathGroupCases
    \cup IndexCases \cup SelectCases

MaxChars == 5

MaxCalls == 6

\* The inputs of the tokenizer: the strings of at most MaxChars chars / * a,
\* and a first token, a gap and a text that begins with a slash.
Bodies == UNION {[1..n -> {"/", "*", "a"}] : n \in 0..MaxChars}

Lexemes ==
  {<<>>, <<"~", ">">>, <<"{">>, <<"(">>, <<"[">>, <<",">>, <<":", "=">>, <<"a", "n", "d">>,
   <<"o", "r">>, <<"=">>, <<"!", "=">>, <<"<">>, <<">">>, <<"<", "=">>, <<">", "=">>,
   <<"1">>, <<"0">>, <<"a">>, <<"é">>, <<"$", "x">>, <<"t", "r", "u", "e">>,
   <<"n", "u", "l", "l">>, <<"i", "n">>, <<"\"", "a", "\"">>, <<Backtick, "a", Backtick>>, <<")">>,
   <<"]">>, <<"}">>, <<"+">>, <<".">>, <<".", ".">>, <<":">>, <<"!">>, <<"~">>, <<"*", "*">>,
   <<"\"">>, <<"?">>}

Gaps == {<<>>, <<" ">>, <<"/", "*", "a", "*", "/">>}

Tails ==
  {<<"/", "a", "/">>, <<"/", "a">>, <<"/", "/">>, <<"/">>, <<"/", "a", "/", "i">>,
   <<"/", "a", "/", "a">>, <<"/", "a", "/", "/">>, <<"/", " ", "1">>}

Inputs == Bodies \cup {l \o g \o s : l \in Lexemes, g \in Gaps, s \in Tails}

\* Tokenizer::new(input).
new(input) ==
  [input |-> input, chars |-> 0, previous_token_kind |-> "Start", byte_index |-> 0,
   char_index |-> 0, start_byte_index |-> 0, start_char_index |-> 0]

Init ==
  /\ ast = AstNull(1)
  /\ data = Undefined
  /\ phase = "new"
  /\ engine = "none"
  /\ result = Ok(Undefined, InitState(0))
  /\ tokenizer = new(<<>>)
  /\ tokens = <<>>

\* JsonAta::new(expr) and the reading of the case's data.
Load ==
  /\ phase = "new"
  /\ \E c \in Cases :
       /\ ast' = c.ast
       /\ data' = c.data
       /\ result' = Ok(Undefined, InitState(c.seed))
  /\ phase' = "loaded"
  /\ UNCHANGED <<engine, tokenizer, tokens>>

\* evaluate of the pool evaluator, on the root frame.
Evaluate ==
  /\ phase = "loaded"
  /\ result' = evaluate(ast, data, RootFrame, result.st)
  /\ phase' = "done"
  /\ engine' = "pool"
  /\ UNCHANGED <<ast, data, tokenizer, tokens>>

\* evaluate of the JsonValue evaluator, on the root frame.
JvEvaluate ==
  /\ phase = "loaded"
  /\ result' = jv_evaluate(ast, data, RootFrame, result.st)
  /\ phase' = "done"
  /\ engine' = "jv"
  /\ UNCHANGED <<ast, data, tokenizer, tokens>>

\* Tokenizer::new on the expression.
NewTokenizer ==
  /\ phase = "new"
  /\ \E input \in Inputs : tokenizer' = new(input)
  /\ tokens' = <<>>
  /\ phase' = "lexing"
  /\ UNCHANGED <<ast, data, engine, result>>

\* One call of next_token; tokens keeps what every call returned: the Token,
\* or the error with its position.
Returned(r) ==
  IF r.t = "ok"
  THEN [t |-> "ok", kind |-> r.v.kind, char_index |-> r.v.char_index,
        byte_index |-> r.v.byte_index, len |-> r.v.len, start |-> r.st.start_char_index]
  ELSE [t |-> "err", kind |-> r.code, char_index |-> r.pos,
        byte_index |-> r.st.start_byte_index, len |-> 0, start |-> r.st.start_char_index]

NextToken ==
  /\ phase = "lexing"
  /\ Len(tokens) < MaxCalls
  /\ tokenizer' = next_token(tokenizer).st
  /\ tokens' = Append(tokens, Returned(next_token(tokenizer)))
  /\ UNCHANGED <<ast, data, phase, engine, result>>

Next == Load \/ Evaluate \/ JvEvaluate \/ NewTokenizer \/ NextToken

Spec == Init /\ [][Next]_vars

----------------------------------------------------------------------------
(* Properties.  A finished run is a state with phase = "done"; its result  *)
(* carries the log of every completed evaluate call and of every function  *)
(* application.                                                            *)

Done == phase = "done"

Events == {result.st.log[i] : i \in 1..Len(result.st.log)}

EventsAt(pos) == {e \in Events : e.pos = pos}

Calls == {result.st.calls[i] : i \in 1..Len(result.st.calls)}

\* The run is one of the cases ( L op R ; $x ) with op among ops.
IsBinaryCase(ops) ==
  /\ Done
  /\ ast.kind = "Block"
  /\ ast.exprs[1].kind = "Binary"
  /\ ast.exprs[1].op \in ops

Operation == ast.exprs[1]

LhsValues == {e.out : e \in EventsAt(Operation.lhs.position)}

RhsValues == {e.out : e \in EventsAt(Operation.rhs.position)}

OperationValues == {e.out : e \in EventsAt(Operation.position)}

\* The left operand decides the result of `and` / `or` on its own.
Decides(op, l) == (op = "And" /\ ~is_truthy(l)) \/ (op = "Or" /\ is_truthy(l))

\* C1: in `L and E` with L falsy and in `L or E` with L truthy, E is never
\* evaluated (evaluate is not entered for E, so neither its errors nor its
\* bindings occur), and the result is false, respectively true.
C1_ShortCircuit ==
  IsBinaryCase({"And", "Or"}) =>
    \A l \in LhsValues :
      Decides(Operation.op, l) =>
        /\ Operation.rhs.position \notin result.st.seen
        /\ result.t = "ok"
        /\ OperationValues = {Bool(Operation.op = "Or")}

\* The array the collapse step works on: the node's keep_array adds SINGLETON.
Flagged(e) ==
  IF e.keep_array /\ has_flags(e.raw, "SEQUENCE") THEN add_flags(e.raw, "SINGLETON")
  ELSE e.raw

\* C2: at the end of evaluate, after the predicates, a result carrying
\* SEQUENCE collapses: length 0 gives Undefined, length 1 without SINGLETON
\* gives the sole element, every other SEQUENCE and every result without
\* SEQUENCE is returned as it is (with the SINGLETON that keep_array adds).
C2_Collapse ==
  Done =>
    \A e \in Events :
      IF ~has_flags(e.raw, "SEQUENCE") THEN e.out = e.raw
      ELSE IF len(e.raw) = 0 THEN e.out = Undefined
      ELSE IF len(e.raw) = 1 /\ ~has_flags(Flagged(e), "SINGLETON")
      THEN e.out = get_member(e.raw, 0)
      ELSE e.out = Flagged(e)

\* A one-element SEQUENCE without SINGLETON was collapsed to its element.
C2_Witness ==
  /\ Done
  /\ \E e \in Events :
       /\ has_flags(e.raw, "SEQUENCE")
       /\ len(e.raw) = 1
       /\ ~has_flags(Flagged(e), "SINGLETON")
       /\ e.out = get_member(e.raw, 0)

CarriesBoth(e) ==
  has_flags(e.raw, "SEQUENCE") /\ has_flags(Flagged(e), "SINGLETON")

\* C3 as stated: every array with SEQUENCE and SINGLETON at the collapse step
\* (SINGLETON possibly added there by keep_array) is returned in array form
\* whatever its length.
C3_ArrayFormAnyLength ==
  Done =>
    \A e \in Events :
      CarriesBoth(e) => is_array(e.out) /\ e.out.m = e.raw.m

\* C3, amended: every array with SEQUENCE and SINGLETON at the collapse step
\* is returned in array form whatever its non-zero length, including length
\* 1; an empty one collapses to Undefined.
C3_ArrayFormUnlessEmpty ==
  Done =>
    \A e \in Events :
      CarriesBoth(e) =>
        IF len(e.raw) = 0 THEN e.out = Undefined
        ELSE is_array(e.out) /\ e.out.m = e.raw.m /\ has_flags(e.out, "SINGLETON")

\* A one-element SEQUENCE got SINGLETON from keep_array and stayed an array.
C3_Witness ==
  /\ Done
  /\ \E e \in Events :
       /\ e.keep_array
       /\ has_flags(e.raw, "SEQUENCE")
       /\ ~has_flags(e.raw, "SINGLETON")
       /\ len(e.raw) = 1
       /\ is_array(e.out)

Pool == engine = "pool"

Failed(code) == result.t = "err" /\ result.code = code

Gave(v) == result.t = "ok" /\ OperationValues = {v}

\* C4: for + - * / %, an Undefined operand gives Undefined and no type error,
\* whatever the other operand is; otherwise a non-number left operand gives
\* T2001, a non-number right operand T2002, an infinite result D1001.
C4_Arithmetic ==
  IsBinaryCase(ArithOps) =>
    \A l \in LhsValues, r \in RhsValues :
      IF is_undefined(l) \/ is_undefined(r) THEN Gave(Undefined)
      ELSE IF ~is_number(l) THEN Failed("T2001")
      ELSE IF ~is_number(r) THEN Failed("T2002")
      ELSE IF is_infinite(f64_arith(Operation.op, l, r)) THEN Failed("D1001")
      ELSE Gave(f64_arith(Operation.op, l, r))

Orderable(v) == is_number(v) \/ is_string(v)

\* C5: for < <= > >=, an Undefined operand gives Undefined; else an operand
\* that is neither number nor string gives T2010; else two numbers compare
\* numerically and two strings lexicographically; else the error is T2009.
C5_Comparison ==
  IsBinaryCase(CompareOps) =>
    \A l \in LhsValues, r \in RhsValues :
      IF is_undefined(l) \/ is_undefined(r) THEN Gave(Undefined)
      ELSE IF ~Orderable(l) \/ ~Orderable(r) THEN Failed("T2010")
      ELSE IF is_number(l) /\ is_number(r)
      THEN Gave(Bool(f64_compare(Operation.op, l, r)))
      ELSE IF is_string(l) /\ is_string(r)
      THEN Gave(Bool(str_compare(Operation.op, l.s, r.s)))
      ELSE Failed("T2009")

\* C6: `v = v` is true iff v is not Undefined, and `=` and `!=` are both
\* false whenever an operand is Undefined.
C6_EqualityUndefined ==
  IsBinaryCase(EqualityOps) =>
    \A l \in LhsValues, r \in RhsValues :
      /\ is_undefined(l) \/ is_undefined(r) => Gave(Bool(FALSE))
      /\ Operation.op = "Equal" /\ l = r /\ ~is_undefined(l) => Gave(Bool(TRUE))

ElementWise(a, b) ==
  Len(a.m) = Len(b.m) /\ \A i \in 1..Len(a.m) : value_eq(a.m[i], b.m[i])

\* C7: two arrays are equal iff they have the same length and equal elements
\* at every position, the last one included; two empty arrays compare equal
\* without failure.
C7_ArrayEquality ==
  IsBinaryCase(EqualityOps) =>
    \A l \in LhsValues, r \in RhsValues :
      is_array(l) /\ is_array(r) =>
        Gave(Bool((Operation.op = "Equal") <=> ElementWise(l, r)))

\* C8: the frame a lambda's body runs in is a child of the frame the lambda
\* was defined in (the frame its function expression was evaluated in), not
\* of the frame it is called from.
C8_LexicalCapture ==
  Done =>
    \A c \in Calls :
      c.proc.k = "lambda" =>
        \A e \in EventsAt(c.proc.node.position) : c.parent = e.frame

\* C9 as stated: a range with an Undefined endpoint is Undefined, not an
\* error, whatever the other endpoint is.
C9_UndefinedEndpoint ==
  IsBinaryCase({"Range"}) /\ Pool =>
    \A l \in LhsValues, r \in RhsValues :
      is_undefined(l) \/ is_undefined(r) => Gave(Undefined)

IntegerOrUndefined(v) == is_undefined(v) \/ is_integer(v)

\* C9, amended: a range with an Undefined endpoint is Undefined when the other
\* endpoint is Undefined or an integer; a left endpoint that is neither gives
\* T2003 and a right endpoint that is neither gives T2004.
C9_UndefinedEndpointChecked ==
  IsBinaryCase({"Range"}) /\ Pool =>
    \A l \in LhsValues, r \in RhsValues :
      is_undefined(l) \/ is_undefined(r) =>
        IF ~IntegerOrUndefined(l) THEN Failed("T2003")
        ELSE IF ~IntegerOrUndefined(r) THEN Failed("T2004")
        ELSE Gave(Undefined)

\* $nosuch .. i with an integer i gave Undefined.
C9_Witness ==
  /\ IsBinaryCase({"Range"})
  /\ Pool
  /\ Undefined \in LhsValues
  /\ \E r \in RhsValues : is_integer(r)
  /\ Gave(Undefined)

\* C10: a range of more than 10,000,000 elements ends the evaluation with the
\* error D2014, returned as an error value.
C10_RangeCap ==
  IsBinaryCase({"Range"}) /\ Pool =>
    \A l \in LhsValues, r \in RhsValues :
      is_integer(l) /\ is_integer(r) /\ as_usize(r) - as_usize(l) + 1 > RangeCap
        => Failed("D2014")

\* The numbers l, l + 1, ..., r.
Ascending(l, r) == [i \in 1..(r - l + 1) |-> Int2Num(l + i - 1)]

\* C11: for integer endpoints l <= r within the cap, negative ones included,
\* l..r produces the SEQUENCE of the r - l + 1 numbers l, l + 1, ..., r in
\* ascending order; for l > r the result is Undefined.
C11_RangeMembers ==
  IsBinaryCase({"Range"}) /\ Pool =>
    \A l \in LhsValues, r \in RhsValues :
      is_integer(l) /\ is_integer(r) /\ r.n - l.n + 1 <= RangeCap =>
        IF l.n > r.n THEN Gave(Undefined)
        ELSE /\ result.t = "ok"
             /\ \A e \in EventsAt(Operation.position) :
                  e.raw = Array(Ascending(l.n, r.n), {"SEQUENCE"})

\* The run is one of the cases ( $x := L ; ... ).
IsBindCase == IsBinaryCase({"Bind"}) /\ Operation.rhs.position = 10

\* The number of completed evaluate calls for the node at pos.
Completed(pos) == Cardinality({i \in 1..Len(result.st.log) : result.st.log[i].pos = pos})

\* What a later $x gives for a bound value v: the JsonValue frame holds JSON.
Bound(v) == IF Pool \/ is_undefined(v) THEN v ELSE to_json(v)

\* C12: in ( $x := e ; ... $x ... ) the right-hand side e is evaluated exactly
\* once, the bind expression gives the value of e, and the later $x gives that
\* value ( $x := 5; $x + 1 is 6 ).
C12_Bind ==
  IsBindCase =>
    \A v \in RhsValues :
      /\ Completed(Operation.rhs.position) = 1
      /\ OperationValues = {v}
      /\ \A e \in EventsAt(4) : e.out = Bound(v)
      /\ \A e \in EventsAt(5) : is_integer(v) /\ e.out = Int2Num(v.n + 1)

\* The run is one of the call cases.
IsCallCase ==
  /\ Done
  /\ ast.kind = "Block"
  /\ ast.exprs[1].kind = "Binary"
  /\ ast.exprs[1].rhs.position = 40

Chained == ast.exprs[2].kind = "Binary"

CallNode == IF Chained THEN ast.exprs[2].rhs ELSE ast.exprs[2]

\* The number of arguments of the call, the context of ~> counted.
Supplied == Len(CallNode.args) + (IF Chained THEN 1 ELSE 0)

\* The values the callee expression gave.
CalleeValues == {e.out : e \in EventsAt(CallNode.proc.position)}

Invoked(p) == \E c \in Calls : c.proc = p

\* C13: a call of a native function of arity N (0..3) with more than N
\* arguments, the context argument of ~> counted, gives T0410 and the native
\* callable is not invoked.
C13_TooManyArguments ==
  IsCallCase /\ Pool =>
    \A p \in CalleeValues :
      p.k = "nativefn" /\ Supplied > p.arity => Failed("T0410") /\ ~Invoked(p)

\* The values of the written arguments 1, ..., k.
Written(k) == [j \in 1..k |-> Int2Num(j)]

\* C14: in C ~> f(a1, ..., an) the function f is invoked with the argument
\* list [C, a1, ..., an]: the value of C first, then the written arguments in
\* their written order.
C14_ContextFirst ==
  IsCallCase /\ Pool /\ Chained =>
    \A p \in CalleeValues, l \in {e.out : e \in EventsAt(11)} :
      /\ p.k = "lambda" \/ (p.k = "nativefn" /\ Supplied <= p.arity) => Invoked(p)
      /\ \A c \in Calls : c.proc = p => c.args = <<l>> \o Written(Len(CallNode.args))

\* C ~> $f(1, 2) invoked the lambda with [C, 1, 2].
C14_Witness ==
  /\ IsCallCase /\ Pool /\ Chained
  /\ Len(CallNode.args) = 2
  /\ \E c \in Calls : c.proc.k = "lambda" /\ c.args = <<String("a"), Int2Num(1), Int2Num(2)>>

\* C15: L ~> R, with R not written as a call and its value not a function,
\* ends with the error T2006, returned as an error value.
C15_ChainNotFunction ==
  IsBinaryCase({"Apply"}) /\ Pool =>
    \A r \in RhsValues : ~is_function(r) => Failed("T2006")

\* The run is one of the group cases.
IsGroupCase == Done /\ ast.kind = "Unary" /\ ast.op = "ObjectConstructor"

\* The members the group expression goes through.
GroupInput ==
  IF ~is_array(data) THEN <<data>> ELSE IF is_empty(data) THEN <<Undefined>> ELSE data.m

\* The key that pair j gives for a member.
KeyOf(item, j) ==
  IF ast.pairs[j][1].kind = "String" THEN String(ast.pairs[j][1].s)
  ELSE IF item.k = "object" THEN get_entry(item, ast.pairs[j][1].name) ELSE Undefined

PairIndexes == 1..Len(ast.pairs)

\* One key string is given by two pairs of different index.
Clash ==
  \E a, b \in 1..Len(GroupInput), i, j \in PairIndexes :
    i # j /\ KeyOf(GroupInput[a], i) = KeyOf(GroupInput[b], j)

\* The members for which pair j gives the key, in input order.
Grouped(key, j) == SelectSeq(GroupInput, LAMBDA item : KeyOf(item, j) = key)

\* What  key : $  gives for the members accumulated under the key.
Accumulated(m) == IF Len(m) = 1 THEN m[1] ELSE Array(m, {"SEQUENCE"})

\* C16: D1009 is raised exactly when a key string already recorded under one
\* pair index is given again by a pair of a different index; a key given by
\* the same pair for several members raises no error, and those members are
\* accumulated under the key in input order.
C16_DuplicateKey ==
  IsGroupCase /\ Pool
  /\ (\A a \in 1..Len(GroupInput), j \in PairIndexes : is_string(KeyOf(GroupInput[a], j)))
  => /\ Failed("D1009") <=> Clash
     /\ ~Clash =>
          /\ result.t = "ok"
          /\ \A a \in 1..Len(GroupInput), j \in PairIndexes :
               LET key == KeyOf(GroupInput[a], j)
               IN is_undefined(GroupInput[a])
                  \/ get_entry(result.v, key.s) = Accumulated(Grouped(key, j))

\* {k: $} on [{"k": "a"}, {"k": "b"}, {"k": "a"}] put the first and the third
\* member under "a".
C16_Witness ==
  /\ IsGroupCase /\ Pool
  /\ Len(ast.pairs) = 1
  /\ result.t = "ok"
  /\ data = JsonArray(<<Obj1("k", String("a")), Obj1("k", String("b")), Obj1("k", String("a"))>>)
  /\ get_entry(result.v, "a")
       = Array(<<Obj1("k", String("a")), Obj1("k", String("a"))>>, {"SEQUENCE"})

\* The run is one of the cases ( L op R ; $x ) with an arithmetic operator or
\* ( -L ; $x ).
IsNumericCase ==
  \/ IsBinaryCase(ArithOps)
  \/ Done /\ ast.kind = "Block" /\ ast.exprs[1].kind = "Unary" /\ ast.exprs[1].op = "Minus"

\* C17: no Number that an evaluation step gives has a NaN payload: the
\* arithmetic operators (0 / 0 and n % 0 included) and unary minus never
\* return a NaN.
C17_NoNaN ==
  IsNumericCase /\ Pool =>
    \A e \in Events : is_number(e.out) => ~is_nan(e.out)

\* A value that carries SINGLETON is an array that carries SEQUENCE.
SingletonIsSequence(v) == has_flags(v, "SINGLETON") => is_array(v) /\ has_flags(v, "SEQUENCE")

\* C18: every value that carries the SINGLETON flag is an array that also
\* carries SEQUENCE, after evaluate_path with keep_singleton_array and after
\* the keep_array handling of evaluate, whatever the shape of the path result.
C18_SingletonOnSequence ==
  Done /\ Pool =>
    /\ SingletonIsSequence(result.v)
    /\ \A e \in Events : SingletonIsSequence(e.raw) /\ SingletonIsSequence(e.out)

\* No member of the array v is Undefined.
NoUndefinedMember(v) == is_array(v) => \A i \in 1..Len(v.m) : ~is_undefined(v.m[i])

\* The arrays that the steps of a path handed to its group expression, as
\* they are once the group expression has run.
StepResults ==
  {result.st.grouped[i].after : i \in 1..Len(result.st.grouped)}

\* C19: an Undefined value never is a member of a SEQUENCE that a path step
\* produced, at any time of the evaluation of the query.
C19_NoUndefinedInSequence ==
  Done /\ Pool /\ ast.kind = "Path" =>
    /\ \A e \in Events : has_flags(e.raw, "SEQUENCE") => NoUndefinedMember(e.raw)
    /\ \A v \in StepResults : has_flags(v, "SEQUENCE") => NoUndefinedMember(v)

\* C20: every error that the evaluator returns carries the source position
\* of the node where it originated, whatever the kind of the error.
C20_ErrorPosition ==
  Done /\ Pool /\ result.t = "err" => result.pos # NoPosition

\* The run is one of the cases $[F]; Literal: F is a literal number.
IsFilterCase == Done /\ Pool /\ ast.kind = "Var" /\ Len(ast.predicates) = 1

Literal == ast.predicates[1].expr.kind = "Number"

\* The input of the filter, normalised to an array, as a sequence.
FilterInput == IF is_array(data) THEN data.m ELSE <<data>>

\* floor(n), with the length of the input added when it is negative.
Normalised(n) ==
  LET i == n.n \div n.d IN IF i < 0 THEN i + Len(FilterInput) ELSE i

\* What the filter gave: the result of the node before it is collapsed.
FilterResults == {e.raw : e \in EventsAt(1)}

\* C21: a filter that is a literal number n selects the element at index
\* i = floor(n), with the length added when i < 0: an element that is an
\* array is returned as it is, another element in a SEQUENCE of its own, and
\* an index out of range gives an empty SEQUENCE.
C21_LiteralIndex ==
  IsFilterCase /\ Literal =>
    LET i == Normalised(ast.predicates[1].expr.n)
    IN /\ result.t = "ok"
       /\ FilterResults =
            {IF i < 0 \/ i >= Len(FilterInput) THEN Array(<<>>, {"SEQUENCE"})
             ELSE IF is_array(FilterInput[i + 1]) THEN FilterInput[i + 1]
             ELSE Array(<<FilterInput[i + 1]>>, {"SEQUENCE"})}

\* $[-1] on ["a", null] gave the SEQUENCE of null alone.
C21_Witness ==
  /\ IsFilterCase /\ Literal
  /\ ast.predicates[1].expr.n = Int2Num(-1)
  /\ data = JsonArray(<<String("a"), Null>>)
  /\ FilterResults = {Array(<<Null>>, {"SEQUENCE"})}

\* The filter value v selects the member at position i (from 0).
Selects(v, i) ==
  IF is_number(v) THEN Normalised(v) = i
  ELSE IF is_array(v) /\ \A j \in 1..Len(v.m) : is_number(v.m[j])
  THEN \E j \in 1..Len(v.m) : Normalised(v.m[j]) = i
  ELSE is_truthy(v)

\* The members of the input that their own field i selects, in input order.
Selected ==
  SelectSeq([p \in 1..Len(FilterInput) |-> [item |-> FilterInput[p], at |-> p - 1]],
            LAMBDA x : Selects(get_entry(x.item, "i"), x.at))

\* C22: a filter that is not a literal gives the members of the input in
\* input order, each at most once: the member at position i is included iff
\* the filter, evaluated on the member, is a number or an array of numbers
\* with an element whose normalised index is i, or is not numeric and truthy.
C22_Selection ==
  IsFilterCase /\ ~Literal =>
    /\ result.t = "ok"
    /\ FilterResults = {Array([p \in 1..Len(Selected) |-> Selected[p].item], {"SEQUENCE"})}

\* What an evaluation shows: its value or error, and the completed
\* evaluations in their order (the visits of the groups among them).
Observed(r) ==
  [t |-> r.t, v |-> r.v, code |-> r.code, pos |-> r.pos,
   visits |-> [i \in 1..Len(r.st.log) |-> <<r.st.log[i].pos, r.st.log[i].raw>>]]

\* C23: group evaluation is deterministic: another evaluation of the same
\* group expression on the same input visits the groups in the same order and
\* gives the same object with the same key order, or the same error.
C23_GroupDeterministic ==
  IsGroupCase /\ Pool =>
    \A s \in Seeds : Observed(evaluate(ast, data, RootFrame, InitState(s))) = Observed(result)

\* The run is the evaluation of a path; PathSteps: its completed
\* evaluate_step calls, in order.
IsPathCase == Done /\ ast.kind = "Path" /\ ~ast.steps[1].cons_array

PathSteps == result.st.steps

Stops(v) == is_undefined(v) \/ (is_array(v) /\ is_empty(v))

\* C24: path evaluation stops at the first step whose result is Undefined or
\* an empty array: no later step is evaluated (its node is never entered and
\* evaluate_step is not called for it), and otherwise the result of a step is
\* the input of the next step.
C24_PathStops ==
  IsPathCase =>
    \A i \in 2..Len(ast.steps) :
      /\ (ast.steps[i].position \in result.st.seen)
           = (Len(PathSteps) >= i - 1 /\ ~Stops(PathSteps[i - 1].out))
      /\ Len(PathSteps) >= i =>
           /\ ~Stops(PathSteps[i - 1].out)
           /\ PathSteps[i].input = PathSteps[i - 1].out

\* nosuch.($x := 1) on {"a": 1} stopped after its first step.
C24_Witness ==
  /\ IsPathCase /\ data = DocA
  /\ Len(ast.steps) = 2 /\ ast.steps[2].kind = "Binary" /\ ast.steps[2].op = "Bind"
  /\ Len(PathSteps) = 1 /\ Stops(PathSteps[1].out)
  /\ ast.steps[2].position \notin result.st.seen

\* The result r of a member of the step carries CONS: an array constructor
\* that is a step built it.
Cons(r, step) ==
  has_flags(r, "CONS") \/ (step.kind = "Unary" /\ step.op = "ArrayConstructor" /\ step.cons_array)

\* The members' results rs with the arrays without CONS replaced by their members.
RECURSIVE Splice(_, _)
Splice(rs, step) ==
  IF rs = <<>> THEN <<>>
  ELSE (IF is_array(Head(rs)) /\ ~Cons(Head(rs), step) THEN Head(rs).m ELSE <<Head(rs)>>)
         \o Splice(Tail(rs), step)

\* C25: when evaluate_step flattens the results of the members, the members
\* of every result that is an array without CONS are spliced in, every other
\* result (an array with CONS included) is one element, and the order of the
\* results is kept.
C25_Flatten ==
  IsPathCase =>
    \A k \in 1..Len(PathSteps) :
      has_flags(PathSteps[k].out, "SEQUENCE") =>
        PathSteps[k].out.m = Splice(PathSteps[k].results, PathSteps[k].step)

\* The blocks that returned a value, and the names the cases use.
Blocks == {result.st.blocks[i] : i \in 1..Len(result.st.blocks)}

VarNames == {"", "x", "y", "f", "a", "b", "count", "append", "now", "substring", "nosuch"}

\* The frames of fs that bind name themselves.
Binders(fs, name) == {g \in 1..Len(fs) : \E i \in 1..Len(fs[g].b) : fs[g].b[i].name = name}

\* C28: binding writes only to the current frame: what a block binds is bound
\* in the block's child frame, and once the block has returned the lookup of
\* every name in the enclosing frame gives what it gave before the block.
C28_BlockScope ==
  Done =>
    \A e \in Blocks :
      e.t = "ok" =>
        \A name \in VarNames : lookup(e.after, e.frame, name) = lookup(e.before, e.frame, name)

\* A block inside a block bound $y: its enclosing frame is not the root frame
\* and $y is bound in a frame made after the block was entered.
C28_Witness ==
  /\ Done /\ result.t = "ok"
  /\ \E e \in Blocks :
       /\ e.t = "ok" /\ e.frame # RootFrame
       /\ \E g \in Binders(e.after, "y") : g > Len(e.before)
       /\ lookup(e.after, e.frame, "y") = <<>>

\* C29: an object constructor or group expression leaves its input unchanged:
\* for every input, an empty array included, the input has the same length
\* and the same members once evaluate_group_expression has returned.
C29_GroupInputUnchanged ==
  Done /\ Pool =>
    \A i \in 1..Len(result.st.grouped) :
      result.st.grouped[i].after = result.st.grouped[i].before

\* The tokenizer has been made; the input in bytes.
Lexing == phase = "lexing"

ByteLen(s) == Len(s) + Cardinality({i \in 1..Len(s) : s[i] = "é"})

\* "*/" follows the char at index p (from 0) of the input.
ClosedAfter(p) ==
  \E q \in (p + 2)..(Len(tokenizer.input) - 1) :
    tokenizer.input[q] = "*" /\ tokenizer.input[q + 1] = "/"

\* C26: the tokenizer skips comments: next_token returns no Whitespace and no
\* Comment token, a comment opened by /* and closed by the first */ after it
\* is skipped without error whatever is in it, and S0106 is returned only
\* when no */ follows the opening /*.
C26_Comments ==
  Lexing =>
    \A i \in 1..Len(tokens) :
      /\ tokens[i].t = "ok" => tokens[i].kind \notin {"Whitespace", "Comment"}
      /\ tokens[i].t = "err" /\ tokens[i].kind = "S0106" => ~ClosedAfter(tokens[i].char_index + 1)

\* The kind of the token returned last before call i, Start before the first.
Previous(i) ==
  LET oks == {j \in 1..(i - 1) : tokens[j].t = "ok"}
  IN IF oks = {} THEN "Start" ELSE tokens[CHOOSE j \in oks : \A k \in oks : k <= j].kind

\* Call i read a token that begins with a slash that no * follows.
SlashAt(i) ==
  /\ tokens[i].start < Len(tokenizer.input)
  /\ tokenizer.input[tokens[i].start + 1] = "/"
  /\ tokens[i].start + 1 < Len(tokenizer.input) => tokenizer.input[tokens[i].start + 2] # "*"

RegexPreceders ==
  {"Start", "Apply", "LeftBrace", "LeftParen", "LeftBracket", "Comma", "Bind", "And", "Or",
   "Equal", "NotEqual", "LeftAngleBracket", "RightAngleBracket", "LessEqual", "GreaterEqual"}

\* C27: a slash that no * follows starts a regex literal iff the token
\* returned before it is Start, Apply, LeftBrace, LeftParen, LeftBracket,
\* Comma, Bind, And, Or, Equal, NotEqual, LeftAngleBracket, RightAngleBracket,
\* LessEqual or GreaterEqual; after any other token it is the ForwardSlash
\* token and no Regex token is produced.
C27_RegexOrDivision ==
  Lexing =>
    \A i \in 1..Len(tokens) :
      /\ SlashAt(i) =>
           IF Previous(i) \in RegexPreceders
           THEN tokens[i].kind \in {"Regex", "S0301", "S0302", "S0303"}
           ELSE tokens[i].t = "ok" /\ tokens[i].kind = "ForwardSlash"
      /\ tokens[i].kind = "Regex" => SlashAt(i) /\ Previous(i) \in RegexPreceders

\* ( /a// gave LeftParen, the regex a and then the division token.
C27_Witness ==
  /\ Lexing
  /\ \E i \in 1..Len(tokens) :
       /\ i > 1 /\ i < Len(tokens)
       /\ tokens[i - 1].kind = "LeftParen" /\ tokens[i].kind = "Regex"
       /\ tokens[i + 1].kind = "ForwardSlash" /\ SlashAt(i + 1)

\* C30: after any sequence of next_token calls byte_index is at most the
\* length of the input in bytes, and every token returned (End, and the
\* tokens of calls made after End) has byte_index + len within that length.
C30_WithinInput ==
  Lexing =>
    /\ tokenizer.byte_index <= ByteLen(tokenizer.input)
    /\ \A i \in 1..Len(tokens) :
         tokens[i].t = "ok" => tokens[i].byte_index + tokens[i].len <= ByteLen(tokenizer.input)

====
